---------------------------- MODULE Spec2Model ----------------------------
(***************************************************************************)
(* Liquidation alert bots (svirikk/mexc-liquidation-bot).                  *)
(*                                                                         *)
(* The repository holds several near-duplicate bots.  The sweep family     *)
(* (src/unnamed/part_003, src/unnamed/part_004, src/index.js) shares one   *)
(* LiquidationAggregator / CooldownManager / AlertEngine design and is     *)
(* modelled by the specification Spec; the variable `variant` says which   *)
(* file's code is running:                                                 *)
(*   "p3"  src/unnamed/part_003  (volume and dominance only)               *)
(*   "p4"  src/unnamed/part_004  (start/last price kept in the window)     *)
(*   "ix1" src/index.js lines 1..745 (PriceTracker, aggressive volume)     *)
(*   "ix2" src/index.js lines 746..1471 (PriceTracker, price range)        *)
(*                                                                         *)
(* Time: Date.now() is the variable `now`, in ticks of 60 s.  Money is in  *)
(* US dollars, exactly as in the code.  JavaScript doubles that come from  *)
(* a division (dominance, price change) are kept as exact fractions        *)
(* <<numerator, denominator>> and compared by cross-multiplication.        *)
(***************************************************************************)
EXTENDS Integers, Sequences, FiniteSets, Bags, TLC

VARIABLES
  variant,       \* which bot of the sweep family runs (fixed after Init)
  now,           \* Date.now(), in ticks
  windows,       \* LiquidationAggregator.windows : Map symbol -> window
  prices,        \* PriceTracker.prices : Map symbol -> [{price, timestamp}]
  cooldownMs,    \* CooldownManager.cooldownMs (set by the constructor)
  dedupWindowMs, \* CooldownManager.dedupWindowMs (set by the constructor)
  cooldowns,     \* CooldownManager.cooldowns : Map symbol -> timestamp
  recentAlerts,  \* CooldownManager.recentAlerts : Map signature -> timestamp
  pending,       \* bag of the AlertEngine.sendAlert calls suspended at their await
  trades,        \* VolumeAggregator.trades (part_001) : Map symbol -> [trade]
  trendTrades,   \* TrendAnalyzer.trades (part_001) : Map symbol -> [trade]
  ingested,      \* number of feed messages delivered so far (bounded)
  validTokens,   \* TokenFilter.validTokens : Set of symbols
  subscribedTokens, \* the streams the open socket is subscribed to (part_003)
  wsManager,     \* BinanceWebSocketManager (part_003): its fields, sockets, timers
  alertEngine,   \* AlertEngine (part_000): alertQueue, sending, its processQueue calls
  alerted,       \* history: what recordAlert was last called with
  last           \* history: what the last handler did

cooldownVars == <<cooldownMs, dedupWindowMs, cooldowns, recentAlerts>>
aggregatorVars == <<windows, prices>>
perEventVars == <<trades, trendTrades>>
filterVars == <<validTokens, subscribedTokens, wsManager>>

vars == <<variant, filterVars, alertEngine, now, aggregatorVars, perEventVars, cooldownVars,
          pending, ingested, alerted, last>>

(***************************************************************************)
(* Bounds of the model.                                                    *)
(***************************************************************************)
MaxTime == 3
MaxEvents == 2
MaxPending == 2
MaxSockets == 3
MaxAlerts == 5
MaxConnects == 12

SweepVariants == {"p3", "p4", "ix1", "ix2"}

\* the symbols of the exchange
Symbols == {"AUSDT", "BUSDT"}

(***************************************************************************)
(* CONFIG.  Durations are the defaults of the code in ticks of 60 s.       *)
(***************************************************************************)
MIN_LIQUIDATION_USD == 1000000
MIN_DOMINANCE == 65
MIN_PRICE_CHANGE_PERCENT == 3
MIN_PRICE_CHANGE_PERCENT_IX2 == 2
MAX_PRICE_CHANGE_PERCENT == 10
AGGRESSIVE_VOLUME_USD == 1000000
AGGRESSIVE_VOLUME_WINDOW == 5
AGGREGATION_WINDOW == 3
PRICE_CHANGE_WINDOW == 4
COOLDOWN == 20
DEDUP_WINDOW == 1
SignatureBucket == 100000

windowMs == AGGREGATION_WINDOW
aggressiveWindowMs == AGGRESSIVE_VOLUME_WINDOW
\* new PriceTracker(...): index.js 693 passes the aggregation window, 1365 the
\* price-change window
PriceTrackerWindowMs(v) ==
  IF v = "ix1" THEN AGGREGATION_WINDOW ELSE PRICE_CHANGE_WINDOW
HasPriceTracker(v) == v \in {"ix1", "ix2"}

(***************************************************************************)
(* Helpers for JavaScript values.                                          *)
(***************************************************************************)
Max(a, b) == IF a >= b THEN a ELSE b
Abs(a) == IF a < 0 THEN -a ELSE a

\* No price, quantity or volume of the model is negative, and the double NaN
\* is written -1.
NaN == -1
IsNaN(a) == a = NaN

\* a + b, a * b and Math.max(a, b) of two doubles: NaN when an operand is NaN
JsAdd(a, b) == IF IsNaN(a) \/ IsNaN(b) THEN NaN ELSE a + b
JsMul(a, b) == IF IsNaN(a) \/ IsNaN(b) THEN NaN ELSE a * b
JsMax(a, b) == IF IsNaN(a) \/ IsNaN(b) THEN NaN ELSE Max(a, b)

\* a < b and a > b of two doubles: false when an operand is NaN
JsLess(a, b) == ~IsNaN(a) /\ ~IsNaN(b) /\ a < b
JsGreater(a, b) == ~IsNaN(a) /\ ~IsNaN(b) /\ a > b

\* The double n / d * 100 as the fraction <<100 * n, d>>.  A fraction whose
\* denominator is 0 is what the division gives: <<0, 0>> is NaN, and <<n, 0>>
\* is +Infinity or -Infinity by the sign of n.
Percent(n, d) == IF IsNaN(n) \/ IsNaN(d) THEN <<0, 0>> ELSE <<100 * n, d>>

\* ((newest - oldest) / oldest) * 100
PercentChange(oldest, newest) ==
  IF IsNaN(oldest) \/ IsNaN(newest) THEN <<0, 0>>
  ELSE <<100 * (newest - oldest), oldest>>

\* Map.delete
MapDelete(m, k) == [x \in DOMAIN m \ {k} |-> m[x]]
\* Map.set
MapSet(m, k, v) == [x \in DOMAIN m \cup {k} |-> IF x = k THEN v ELSE m[x]]

EmptyMap == [x \in {} |-> 0]

RECURSIVE SumSide(_, _)
SumSide(liqs, side) ==
  IF liqs = <<>> THEN 0
  ELSE JsAdd(IF Head(liqs).side = side THEN Head(liqs).volumeUSD ELSE 0,
             SumSide(Tail(liqs), side))

RECURSIVE SumNotSide(_, _)
SumNotSide(liqs, side) ==
  IF liqs = <<>> THEN 0
  ELSE JsAdd(IF Head(liqs).side # side THEN Head(liqs).volumeUSD ELSE 0,
             SumNotSide(Tail(liqs), side))

(***************************************************************************)
(* The feed: Binance force orders {s, S, p, q}.                            *)
(***************************************************************************)
\* A JSON value of the feed: a number, or something that is not one
Num(n) == [isNumber |-> TRUE, value |-> n]
Junk == [isNumber |-> FALSE, value |-> 0]

\* parseFloat: the number, or NaN
ParseFloat(x) == IF x.isNumber THEN x.value ELSE NaN

RawOrders ==
  { [s |-> "AUSDT", S |-> "SELL", p |-> Num(100), q |-> Num(6000)],
    [s |-> "AUSDT", S |-> "SELL", p |-> Num(104), q |-> Num(6000)],
    [s |-> "BUSDT", S |-> "BUY",  p |-> Num(50),  q |-> Num(24000)] }

\* An order whose price is not a number
MalformedOrders ==
  { [s |-> "AUSDT", S |-> "SELL", p |-> Junk, q |-> Num(6000)] }

\* BinanceWebSocketManager.handleMessage: the liquidation built from an order.
\* The fields S (the raw order direction) and eligible (what the token filter
\* said of the symbol when the order came) are history, not program state.
Liquidation(order, t) ==
  [ side      |-> IF order.S = "BUY" THEN "SHORT" ELSE "LONG",
    price     |-> ParseFloat(order.p),
    quantity  |-> ParseFloat(order.q),
    volumeUSD |-> JsMul(ParseFloat(order.p), ParseFloat(order.q)),
    timestamp |-> t,
    S         |-> order.S,
    eligible  |-> order.s \in validTokens ]

(***************************************************************************)
(* PriceTracker (index.js).                                                *)
(***************************************************************************)
PriceCleanup(v, pr, symbol, t) ==
  IF symbol \notin DOMAIN pr THEN pr
  ELSE LET Fresh(p) == t - p.timestamp < PriceTrackerWindowMs(v)
           filtered == SelectSeq(pr[symbol], Fresh)
       IN IF filtered = <<>> THEN MapDelete(pr, symbol)
          ELSE MapSet(pr, symbol, filtered)

AddPrice(v, pr, symbol, price, t) ==
  LET history == IF symbol \in DOMAIN pr THEN pr[symbol] ELSE <<>>
      pushed == MapSet(pr, symbol,
                       Append(history, [price |-> price, timestamp |-> t]))
  IN PriceCleanup(v, pushed, symbol, t)

NoPriceChange == [known |-> FALSE]

GetPriceChange(pr, symbol) ==
  IF symbol \notin DOMAIN pr THEN NoPriceChange
  ELSE LET h == pr[symbol]
       IN IF Len(h) < 2 THEN NoPriceChange
          ELSE [ known |-> TRUE,
                 changePercent |-> PercentChange(h[1].price, h[Len(h)].price),
                 oldPrice |-> h[1].price,
                 newPrice |-> h[Len(h)].price,
                 dataPoints |-> Len(h) ]

PriceReset(pr, symbol) == MapDelete(pr, symbol)

(***************************************************************************)
(* LiquidationAggregator.                                                  *)
(***************************************************************************)
NewWindow(v, liq, t) ==
  IF v = "p4"
  THEN [liquidations |-> <<>>, startTime |-> t,
        startPrice |-> liq.price, lastPrice |-> liq.price]
  ELSE [liquidations |-> <<>>, startTime |-> t]

\* index.js 158..161 (ix1) filters by the longer aggressive-volume window
CleanupWindowMs(v) == IF v = "ix1" THEN aggressiveWindowMs ELSE windowMs

Cleanup(v, w, symbol, t) ==
  IF symbol \notin DOMAIN w THEN w
  ELSE LET Fresh(liq) == t - liq.timestamp < CleanupWindowMs(v)
           kept == SelectSeq(w[symbol].liquidations, Fresh)
       IN IF kept = <<>> THEN MapDelete(w, symbol)
          ELSE MapSet(w, symbol,
                 [w[symbol] EXCEPT !.liquidations = kept,
                                   !.startTime = kept[1].timestamp])

\* addLiquidation: the new value of `windows`
AddLiquidation(v, w, symbol, liq, t) ==
  LET created == IF symbol \in DOMAIN w THEN w
                 ELSE MapSet(w, symbol, NewWindow(v, liq, t))
      win     == created[symbol]
      pushed  == [win EXCEPT !.liquidations = Append(@, liq)]
      priced  == IF v = "p4" THEN [pushed EXCEPT !.lastPrice = liq.price]
                 ELSE pushed
  IN Cleanup(v, MapSet(created, symbol, priced), symbol, t)

\* addLiquidation: the new value of `prices`
AddLiquidationPrices(v, pr, symbol, liq, t) ==
  IF HasPriceTracker(v) THEN AddPrice(v, pr, symbol, liq.price, t) ELSE pr

NoStats == [none |-> TRUE]

\* The liquidations the volumes of a snapshot are summed over: all of the
\* window, except in ix1, which keeps those of the main window only
\* (index.js 183..192).
StatsEvents(v, win, t) ==
  IF v = "ix1"
  THEN LET InMain(liq) == t - liq.timestamp < windowMs
       IN SelectSeq(win.liquidations, InMain)
  ELSE win.liquidations

StatsPriceChange(v, win, pr, symbol) ==
  IF v = "p4"
  THEN [known |-> TRUE,
        changePercent |-> PercentChange(win.startPrice, win.lastPrice)]
  ELSE IF HasPriceTracker(v) THEN GetPriceChange(pr, symbol)
  ELSE NoPriceChange

GetWindowStats(v, w, pr, symbol, t) ==
  IF symbol \notin DOMAIN w THEN NoStats
  ELSE LET win   == w[symbol]
           liqs  == StatsEvents(v, win, t)
           long  == SumSide(liqs, "LONG")
           short == SumNotSide(liqs, "LONG")
           total == JsAdd(long, short)
           dominantSide == IF JsGreater(long, short) THEN "LONG" ELSE "SHORT"
           aggressiveLong  == SumSide(win.liquidations, "LONG")
           aggressiveShort == SumNotSide(win.liquidations, "LONG")
       IN IF Len(win.liquidations) = 0 \/ total = 0 THEN NoStats
          ELSE [ none            |-> FALSE,
                 symbol          |-> symbol,
                 longVolumeUSD   |-> long,
                 shortVolumeUSD  |-> short,
                 totalVolumeUSD  |-> total,
                 dominantSide    |-> dominantSide,
                 dominance       |-> Percent(JsMax(long, short), total),
                 count           |-> Len(liqs),
                 durationSec     |-> t - win.startTime,
                 timestamp       |-> t,
                 priceChange     |-> StatsPriceChange(v, win, pr, symbol),
                 aggressiveDominantVolume |->
                   IF v # "ix1" THEN 0
                   ELSE IF dominantSide = "LONG" THEN aggressiveLong
                        ELSE aggressiveShort ]

GetAllActiveSymbols(w) == DOMAIN w

\* Faulty variant (sensitivity of C10): the window is kept
Reset_Keeps(w, symbol) == w

\* reset: the new value of `windows`
Reset(w, symbol) == MapDelete(w, symbol)

\* reset: the new value of `prices`
ResetPrices(v, pr, symbol) ==
  IF HasPriceTracker(v) THEN PriceReset(pr, symbol) ELSE pr

(***************************************************************************)
(* SignalDetector.  A fraction f = <<n, d>> has d >= 0.  With d = 0 the    *)
(* cross-multiplied comparisons are those of the double: every comparison  *)
(* with NaN (<<0, 0>>) is false, +Infinity is greater and -Infinity less   *)
(* than every threshold.                                                   *)
(***************************************************************************)
FracLess(f, k) == f[1] < k * f[2]
FracGreater(f, k) == f[1] > k * f[2]
FracAbs(f) == <<Abs(f[1]), f[2]>>

\* src/unnamed/part_003
ShouldAlertP3(stats) ==
  IF stats.none THEN FALSE
  ELSE IF JsLess(stats.totalVolumeUSD, MIN_LIQUIDATION_USD) THEN FALSE
  ELSE IF FracLess(stats.dominance, MIN_DOMINANCE) THEN FALSE
  ELSE TRUE

\* src/unnamed/part_004
ShouldAlertP4(stats) ==
  IF stats.none THEN FALSE
  ELSE IF JsLess(stats.totalVolumeUSD, MIN_LIQUIDATION_USD) THEN FALSE
  ELSE IF FracLess(stats.dominance, MIN_DOMINANCE) THEN FALSE
  ELSE IF FracLess(FracAbs(stats.priceChange.changePercent),
                   MIN_PRICE_CHANGE_PERCENT) THEN FALSE
  ELSE IF JsLess(stats.totalVolumeUSD, AGGRESSIVE_VOLUME_USD) THEN FALSE
  ELSE IF stats.dominantSide = "SHORT"
          /\ FracGreater(stats.priceChange.changePercent, 0) THEN FALSE
  ELSE IF stats.dominantSide = "LONG"
          /\ FracLess(stats.priceChange.changePercent, 0) THEN FALSE
  ELSE TRUE

\* src/index.js 261..300; `if (stats.priceChange)` is false for null only
ShouldAlertIx1(stats) ==
  IF stats.none THEN FALSE
  ELSE IF JsLess(stats.totalVolumeUSD, MIN_LIQUIDATION_USD) THEN FALSE
  ELSE IF FracLess(stats.dominance, MIN_DOMINANCE) THEN FALSE
  ELSE IF stats.priceChange.known
          /\ FracLess(FracAbs(stats.priceChange.changePercent),
                      MIN_PRICE_CHANGE_PERCENT) THEN FALSE
  ELSE IF stats.priceChange.known /\ stats.dominantSide = "LONG"
          /\ FracLess(stats.priceChange.changePercent, 0) THEN FALSE
  ELSE IF stats.priceChange.known /\ stats.dominantSide = "SHORT"
          /\ FracGreater(stats.priceChange.changePercent, 0) THEN FALSE
  ELSE IF JsLess(stats.aggressiveDominantVolume, AGGRESSIVE_VOLUME_USD)
       THEN FALSE
  ELSE TRUE

\* src/index.js 976..1017
ShouldAlertIx2(stats) ==
  IF stats.none THEN FALSE
  ELSE IF JsLess(stats.totalVolumeUSD, MIN_LIQUIDATION_USD) THEN FALSE
  ELSE IF FracLess(stats.dominance, MIN_DOMINANCE) THEN FALSE
  ELSE IF stats.priceChange.known
          /\ FracLess(FracAbs(stats.priceChange.changePercent),
                      MIN_PRICE_CHANGE_PERCENT_IX2) THEN FALSE
  ELSE IF stats.priceChange.known
          /\ FracGreater(FracAbs(stats.priceChange.changePercent),
                         MAX_PRICE_CHANGE_PERCENT) THEN FALSE
  ELSE IF stats.priceChange.known /\ stats.dominantSide = "LONG"
          /\ FracGreater(stats.priceChange.changePercent, 0) THEN FALSE
  ELSE IF stats.priceChange.known /\ stats.dominantSide = "SHORT"
          /\ FracLess(stats.priceChange.changePercent, 0) THEN FALSE
  ELSE TRUE

ShouldAlert(v, stats) ==
  CASE v = "p3"  -> ShouldAlertP3(stats)
    [] v = "p4"  -> ShouldAlertP4(stats)
    [] v = "ix1" -> ShouldAlertIx1(stats)
    [] v = "ix2" -> ShouldAlertIx2(stats)

\* The side the alert names as liquidated.  part_003 and index.js 1086..1099
\* print the dominant label; part_004 and index.js 306..320 (interpretSignal,
\* and the same mapping in the formatter) print the other one.
LiquidatedSide(v, stats) ==
  IF v \in {"p3", "ix2"}
  THEN IF stats.dominantSide = "LONG" THEN "LONGS" ELSE "SHORTS"
  ELSE IF stats.dominantSide = "SHORT" THEN "LONGS" ELSE "SHORTS"

\* `${symbol}:${dominantSide}:${Math.floor(totalVolumeUSD / 100000)}`
\* Math.floor(totalVolumeUSD / 100000), NaN for a NaN volume
SignatureBucketOf(volume) ==
  IF IsNaN(volume) THEN NaN ELSE volume \div SignatureBucket

\* a number inside a template literal
NumberToString(n) == IF IsNaN(n) THEN "NaN" ELSE ToString(n)

\* Faulty variant (sensitivity of C24): the volume itself, not its bucket
GetSignature_Exact(stats) ==
  stats.symbol \o ":" \o stats.dominantSide \o ":"
    \o NumberToString(stats.totalVolumeUSD)

\* the template literal `${symbol}:${dominantSide}:${bucket}`
GetSignature(stats) ==
  stats.symbol \o ":" \o stats.dominantSide \o ":"
    \o NumberToString(SignatureBucketOf(stats.totalVolumeUSD))

(***************************************************************************)
(* CooldownManager of the sweep family (timestamp cooldown + signature     *)
(* dedup).                                                                 *)
(***************************************************************************)
\* Faulty variant (sensitivity of C19): the boundary instant still blocked
CooldownGate_Inclusive(symbol, t) ==
  ~(symbol \in DOMAIN cooldowns /\ t - cooldowns[symbol] <= cooldownMs)

CooldownGate(symbol, t) ==
  ~(symbol \in DOMAIN cooldowns /\ t - cooldowns[symbol] < cooldownMs)

\* Faulty variant (sensitivity of C5): the dedup check left out
DedupGate_Off(signature, t) == TRUE

DedupGate(signature, t) ==
  ~(signature \in DOMAIN recentAlerts
    /\ t - recentAlerts[signature] < dedupWindowMs)

CanAlert(symbol, stats, signature, t) ==
  IF ~CooldownGate(symbol, t) THEN FALSE
  ELSE IF ~DedupGate(signature, t) THEN FALSE
  ELSE TRUE

\* canAlert on given values of the two maps (the maps as recordAlert has set
\* them, before it calls cleanup)
CanAlertOn(cd, ra, symbol, signature, t) ==
  IF symbol \in DOMAIN cd /\ t - cd[symbol] < cooldownMs THEN FALSE
  ELSE IF signature \in DOMAIN ra /\ t - ra[signature] < dedupWindowMs
       THEN FALSE
  ELSE TRUE

\* Faulty variant (sensitivity of C30): cleanup deletes the records older
\* than half the duration
Expire_Eager(m, t, span) ==
  [x \in {y \in DOMAIN m : ~((t - m[y]) * 2 > span)} |-> m[x]]

\* Faulty variant (sensitivity of C21): cleanup deletes nothing
Expire_KeepsAll(m, t, span) == m

\* CooldownManager.cleanup applied to one of the two maps
Expire(m, t, span) == [x \in {y \in DOMAIN m : ~(t - m[y] > span * 2)} |-> m[x]]

\* Faulty variant (sensitivity of C29): recordAlert leaves the cooldown of
\* the symbol as it was
RecordAlertCooldowns_NotSet(symbol, t) ==
  Expire(cooldowns, t, cooldownMs)

\* Faulty variant (sensitivity of C33): recordAlert starts the cooldown map
\* afresh
RecordAlertCooldowns_Afresh(symbol, t) ==
  Expire(MapSet(EmptyMap, symbol, t), t, cooldownMs)

\* recordAlert: the new values of `cooldowns` and `recentAlerts`
RecordAlertCooldowns(symbol, t) ==
  Expire(MapSet(cooldowns, symbol, t), t, cooldownMs)

RecordAlertRecent(signature, t) ==
  Expire(MapSet(recentAlerts, signature, t), t, dedupWindowMs)

(***************************************************************************)
(* CooldownManager of the per-event bots: the record of the last alert     *)
(* keeps its volume and side, and a candidate inside the cooldown passes   *)
(* when it escalates.  The ratio totalVolume / lastAlert.volume >= 1.5 is  *)
(* compared exactly: 2 * totalVolume >= 3 * lastAlert.volume.              *)
(***************************************************************************)
\* CONFIG.VOLUME_INCREASE_THRESHOLD (1.5) as a fraction
VOLUME_INCREASE_THRESHOLD == <<3, 2>>

RatioAtLeast(volume, lastVolume, f) == f[2] * volume >= f[1] * lastVolume

\* stats.dominance - lastAlert.dominance < k, on fractions
DominanceIncreaseLess(d, lastD, k) ==
  d[1] * lastD[2] - lastD[1] * d[2] < k * d[2] * lastD[2]

\* Faulty variant (sensitivity of C3): any increase of volume escalates
CanAlertP0_AnyIncrease(symbol, aggregation, t) ==
  IF symbol \notin DOMAIN cooldowns THEN TRUE
  ELSE LET lastAlert == cooldowns[symbol]
       IN IF t - lastAlert.timestamp < cooldownMs
          THEN IF lastAlert.side # aggregation.dominantSide THEN TRUE
               ELSE IF aggregation.totalVolumeUSD >= lastAlert.volume THEN TRUE
               ELSE FALSE
          ELSE TRUE

\* src/unnamed/part_000 (the map is called lastAlerts there)
CanAlertP0(symbol, aggregation, t) ==
  IF symbol \notin DOMAIN cooldowns THEN TRUE
  ELSE LET lastAlert == cooldowns[symbol]
       IN IF t - lastAlert.timestamp < cooldownMs
          THEN IF lastAlert.side # aggregation.dominantSide THEN TRUE
               ELSE IF RatioAtLeast(aggregation.totalVolumeUSD, lastAlert.volume,
                                    VOLUME_INCREASE_THRESHOLD) THEN TRUE
               ELSE FALSE
          ELSE TRUE

RecordAlertP0(symbol, aggregation, t) ==
  MapSet(cooldowns, symbol,
         [timestamp |-> t, side |-> aggregation.dominantSide,
          volume |-> aggregation.totalVolumeUSD])

\* CooldownManager.cleanup of part_000: the new value of lastAlerts
CleanupP0(lastAlerts, t) ==
  LET cutoff == t - (cooldownMs * 2)
  IN [x \in {y \in DOMAIN lastAlerts : ~(lastAlerts[y].timestamp < cutoff)}
        |-> lastAlerts[x]]

\* canAlert and recordAlert of part_000 on a given value of the map
\* lastAlerts, for the loop of handleTrade that calls them several times
CanAlertP0With(lastAlerts, symbol, aggregation, t) ==
  IF symbol \notin DOMAIN lastAlerts THEN TRUE
  ELSE LET lastAlert == lastAlerts[symbol]
       IN IF t - lastAlert.timestamp < cooldownMs
          THEN IF lastAlert.side # aggregation.dominantSide THEN TRUE
               ELSE IF RatioAtLeast(aggregation.totalVolumeUSD, lastAlert.volume,
                                    VOLUME_INCREASE_THRESHOLD) THEN TRUE
               ELSE FALSE
          ELSE TRUE

\* Faulty variant (sensitivity of C20): the volume of the first alert of the
\* cooldown stays the baseline
RecordAlertP0With_KeepsBaseline(lastAlerts, symbol, aggregation, t) ==
  MapSet(lastAlerts, symbol,
         [timestamp |-> t, side |-> aggregation.dominantSide,
          volume |-> IF symbol \in DOMAIN lastAlerts
                        /\ lastAlerts[symbol].side = aggregation.dominantSide
                     THEN lastAlerts[symbol].volume
                     ELSE aggregation.totalVolumeUSD])

RecordAlertP0With(lastAlerts, symbol, aggregation, t) ==
  MapSet(lastAlerts, symbol,
         [timestamp |-> t, side |-> aggregation.dominantSide,
          volume |-> aggregation.totalVolumeUSD])

\* src/unnamed/part_001
CanAlertP1(symbol, stats, t) ==
  IF symbol \notin DOMAIN cooldowns THEN TRUE
  ELSE LET lastAlert == cooldowns[symbol]
           sameSide == stats.dominantSide = lastAlert.side
       IN IF t - lastAlert.timestamp < cooldownMs
             /\ sameSide
             /\ ~RatioAtLeast(stats.totalVolume, lastAlert.volume,
                              VOLUME_INCREASE_THRESHOLD)
             /\ DominanceIncreaseLess(stats.dominance, lastAlert.dominance, 10)
          THEN FALSE
          ELSE TRUE

RecordAlertP1(symbol, stats, t) ==
  MapSet(cooldowns, symbol,
         [timestamp |-> t, volume |-> stats.totalVolume,
          dominance |-> stats.dominance, side |-> stats.dominantSide])

\* src/unnamed/part_002
CanAlertP2(symbol, stats, t) ==
  IF symbol \notin DOMAIN cooldowns THEN TRUE
  ELSE LET lastAlert == cooldowns[symbol]
           sameSide == stats.dominantSide = lastAlert.side
       IN IF t - lastAlert.timestamp < cooldownMs
             /\ sameSide
             /\ ~RatioAtLeast(stats.totalVolume, lastAlert.volume,
                              VOLUME_INCREASE_THRESHOLD)
          THEN FALSE
          ELSE TRUE

RecordAlertP2(symbol, stats, t) ==
  MapSet(cooldowns, symbol,
         [timestamp |-> t, volume |-> stats.totalVolume,
          side |-> stats.dominantSide])

(***************************************************************************)
(* BinanceWebSocketManager of part_003.  A socket is a number; `open` maps *)
(* every socket whose handlers are attached and that has not emitted       *)
(* 'close' to the streams it was opened with, `closing` holds the sockets  *)
(* close() was called on (they deliver nothing any more; their 'close'     *)
(* event is still to come), `ws` is this.ws, `timers` counts the           *)
(* setTimeout callbacks of reconnect that are due, and `sleeping` the      *)
(* calls of resubscribe inside their wait of 2 s.  Where the 'open' event  *)
(* is a step of its own (SpecReconnect), `connecting` holds the sockets    *)
(* that were created and have emitted neither 'open' nor 'close', and      *)
(* `exited` says that process.exit was called.                             *)
(***************************************************************************)
maxReconnectAttempts == 10

\* the manager once start has connected and the socket has opened
Connected ==
  [ ws                |-> 1,
    isConnected       |-> TRUE,
    reconnectAttempts |-> 0,
    open              |-> MapSet(EmptyMap, 1, Symbols),
    connecting        |-> {},
    closing           |-> {},
    timers            |-> 0,
    sleeping          |-> 0,
    created           |-> 1,
    exited            |-> FALSE ]

\* connect, with the 'open' event of the new socket: nothing is done to the
\* socket this.ws held before
Connect(m, tokens) ==
  IF tokens = {} THEN m
  ELSE [ m EXCEPT !.ws = m.created + 1,
                  !.created = m.created + 1,
                  !.open = MapSet(m.open, m.created + 1, tokens),
                  !.isConnected = TRUE,
                  !.reconnectAttempts = 0 ]

\* reconnect: a timer of 5 s that will call connect
Reconnect(m) ==
  IF m.reconnectAttempts >= maxReconnectAttempts THEN m
  ELSE [ m EXCEPT !.reconnectAttempts = @ + 1, !.timers = @ + 1 ]

\* the socket has emitted 'close': it is gone
Closed(m, socket) ==
  [m EXCEPT !.open = MapDelete(m.open, socket),
            !.connecting = @ \ {socket},
            !.closing = @ \ {socket}]

\* the 'close' handler of a socket
OnClose(m, socket) ==
  Reconnect([Closed(m, socket) EXCEPT !.isConnected = FALSE])

\* WebSocketManager.reconnect of part_000: the process exits when the
\* attempts are used up (the delay grows with the attempts)
ReconnectP0(m) ==
  IF m.reconnectAttempts >= maxReconnectAttempts
  THEN [m EXCEPT !.exited = TRUE]
  ELSE [m EXCEPT !.reconnectAttempts = @ + 1, !.timers = @ + 1]

\* the 'close' handler of part_000 (stopPing, reconnect)
OnCloseP0(m, socket) == ReconnectP0(Closed(m, socket))

\* connect up to its return: the new socket is this.ws, its handlers are
\* attached, and 'open' or 'close' is still to come
NewSocket(m) ==
  [m EXCEPT !.ws = m.created + 1,
            !.created = m.created + 1,
            !.connecting = @ \cup {m.created + 1}]

\* Faulty variant (sensitivity of C36): 'open' leaves the attempts as they are
OnOpen_KeepsAttempts(v, m, socket) ==
  [m EXCEPT !.connecting = @ \ {socket},
            !.open = MapSet(m.open, socket, Symbols),
            !.isConnected = TRUE]

\* the 'open' handler of a socket (part_000 sets no isConnected; it
\* subscribes and starts the ping)
OnOpen(v, m, socket) ==
  [m EXCEPT !.connecting = @ \ {socket},
            !.open = MapSet(m.open, socket, Symbols),
            !.isConnected = IF v = "p0" THEN @ ELSE TRUE,
            !.reconnectAttempts = 0]

\* ws.close() on this.ws
Close(m) ==
  IF m.ws \in DOMAIN m.open THEN [m EXCEPT !.closing = @ \cup {m.ws}] ELSE m

\* the sockets that are open and deliver messages
Delivering(m) == DOMAIN m.open \ m.closing

(***************************************************************************)
(* AlertEngine of part_000: the queue of messages and the processQueue     *)
(* calls.  A message is named by its place in the order of the pushes.  A  *)
(* call of processQueue runs without interruption from one await to the    *)
(* next; `calls` holds the calls suspended at an await, each with the      *)
(* message it shifted off last and the await it waits at.                  *)
(***************************************************************************)
\* AlertEngine constructor
NewAlertEngine(telegramEnabled) ==
  [ telegramEnabled |-> telegramEnabled,
    alertQueue      |-> <<>>,
    sending         |-> FALSE,
    calls           |-> {} ]

\* Faulty variant (sensitivity of C32): the loop ends without clearing the flag
LoopExit_KeepsSending(e) == e

\* processQueue after its loop: this.sending = false
LoopExit(e) == [e EXCEPT !.sending = FALSE]

\* processQueue from the test of its while loop to the next await: either the
\* head is shifted off and passed to sendTelegram, or the loop ends
LoopTurn(e) ==
  IF Len(e.alertQueue) > 0
  THEN [e EXCEPT !.alertQueue = Tail(@),
                 !.calls = @ \cup {[ at      |-> "sendTelegram",
                                     message |-> Head(e.alertQueue) ]}]
  ELSE LoopExit(e)

\* Faulty variant (sensitivity of C31): the sending flag is not looked at
ReturnsAtOnce_NoFlag(e) == Len(e.alertQueue) = 0

\* the early return of processQueue
ReturnsAtOnce(e) == e.sending \/ Len(e.alertQueue) = 0

\* a call of processQueue, up to its first await
EnterProcessQueue(e) ==
  IF ReturnsAtOnce(e) THEN e
  ELSE LoopTurn([e EXCEPT !.sending = TRUE])

\* AlertEngine.sendAlert(message)
EngineSendAlert(e, message) ==
  IF ~e.telegramEnabled THEN e
  ELSE EnterProcessQueue([e EXCEPT !.alertQueue = Append(@, message)])

\* `await this.sendTelegram(message)` resolved: the call goes on to the
\* setTimeout of 2000 ms
SendTelegramResolved(e, call) ==
  [e EXCEPT !.calls = (@ \ {call})
                        \cup {[at |-> "setTimeout", message |-> call.message]}]

\* `await this.sendTelegram(message)` rejected: the catch block logs and the
\* loop goes to its next turn; the same after the setTimeout has fired
NextTurn(e, call) == LoopTurn([e EXCEPT !.calls = @ \ {call}])

\* the messages passed to sendTelegram by the step from e to f
PassedToTransport(e, f) ==
  LET new == {c \in f.calls \ e.calls : c.at = "sendTelegram"}
  IN IF new = {} THEN <<>> ELSE <<(CHOOSE c \in new : TRUE).message>>

(***************************************************************************)
(* The sweep family as a state machine.                                    *)
(***************************************************************************)
\* Nothing recorded yet
\* (`queued` counts the messages handed to AlertEngine.sendAlert of part_000
\* `transport` keeps, per message, the calls of sendTelegram, and `handed`
\* the messages in the order in which they were passed to sendTelegram;
\* `closes` counts the 'close' events since the last 'open')
NoneAlerted ==
  [bySymbol |-> EmptyMap, bySignature |-> EmptyMap,
   queued |-> 0, transport |-> EmptyMap, handed |-> <<>>, closes |-> 0]

Init ==
  /\ variant \in SweepVariants
  /\ now = 0
  /\ windows = EmptyMap
  /\ prices = EmptyMap
  /\ cooldownMs = COOLDOWN
  /\ dedupWindowMs = DEDUP_WINDOW
  /\ cooldowns = EmptyMap
  /\ recentAlerts = EmptyMap
  /\ pending = EmptyBag
  /\ trades = EmptyMap
  /\ trendTrades = EmptyMap
  /\ ingested = 0
  /\ validTokens = Symbols
  /\ subscribedTokens = Symbols
  /\ wsManager = Connected
  /\ alertEngine = NewAlertEngine(TRUE)
  /\ alerted = NoneAlerted
  /\ last = [op |-> "init"]

\* Date.now() advances
Tick ==
  /\ now < MaxTime
  /\ now' = now + 1
  /\ last' = [op |-> "tick"]
  /\ UNCHANGED <<variant, alertEngine, filterVars, aggregatorVars, perEventVars, cooldownVars, pending,
                 ingested, alerted>>

\* part_003 opens one stream per valid token (connect, 327..350) and the
\* socket delivers the orders of those streams; the other bots read the
\* global stream, which delivers every order.
Delivered(order) == variant = "p3" => order.s \in subscribedTokens

\* `if (!this.tokenFilter.isValid(symbol)) return` (part_004 436, index.js
\* 529 and 1225); handleMessage of part_003 has no such line
Accepted(order) == variant = "p3" \/ order.s \in validTokens

\* handleMessage from parseFloat on: aggregator.addLiquidation
Ingest(order) ==
  LET liq == Liquidation(order, now)
  IN /\ windows' = AddLiquidation(variant, windows, order.s, liq, now)
     /\ prices' = AddLiquidationPrices(variant, prices, order.s, liq, now)
     /\ last' = [op |-> "addLiquidation", symbol |-> order.s, liq |-> liq,
                 afterReset |-> last.op = "sendAlert"
                                /\ last.symbol = order.s]

\* BinanceWebSocketManager.handleMessage
HandleMessage(order) ==
  /\ ingested < MaxEvents
  /\ Delivered(order)
  /\ IF Accepted(order) THEN Ingest(order)
     ELSE /\ last' = [op |-> "filtered", symbol |-> order.s]
          /\ UNCHANGED aggregatorVars
  /\ ingested' = ingested + 1
  /\ UNCHANGED <<variant, alertEngine, filterVars, now, perEventVars, cooldownVars, pending,
                 alerted>>

\* One iteration of the loop of AlertEngine.checkAllWindows
Evaluate(symbol) ==
  LET stats == GetWindowStats(variant, windows, prices, symbol, now)
      should == ShouldAlert(variant, stats)
      can == IF should
             THEN CanAlert(symbol, stats, GetSignature(stats), now)
             ELSE FALSE
  IN [ stats  |-> stats,
       events |-> IF stats.none THEN <<>>
                  ELSE StatsEvents(variant, windows[symbol], now),
       should |-> should,
       can    |-> can,
       liquidatedSide |-> IF stats.none THEN "none"
                          ELSE LiquidatedSide(variant, stats) ]

\* Faulty variant (sensitivity of C25): the loop returns after the first
\* alert it starts
AfterIteration_ReturnsOnAlert(rest, e) == IF e.can THEN {} ELSE rest

\* the symbols the loop of checkAllWindows still has to visit after one
\* iteration: every path of the body (continue, sendAlert) goes on with the
\* next symbol
AfterIteration(rest, e) == rest

\* The loop of checkAllWindows over the array of symbols.  sendAlert runs up
\* to its first await inside the iteration and changes nothing there, so
\* every iteration reads the same maps (and the order of the array does not
\* matter).
RECURSIVE CheckLoop(_, _)
CheckLoop(symbols, evals) ==
  IF symbols = {} THEN evals
  ELSE LET symbol == CHOOSE x \in symbols : TRUE
           e == Evaluate(symbol)
       IN CheckLoop(AfterIteration(symbols \ {symbol}, e),
                    [x \in DOMAIN evals \cup {symbol} |->
                       IF x = symbol THEN e ELSE evals[x]])

\* AlertEngine.checkAllWindows, up to the await of every sendAlert it starts;
\* the suspended calls resume in any order.
CheckAllWindows ==
  LET evals == CheckLoop(GetAllActiveSymbols(windows), EmptyMap)
      started == { [ symbol    |-> symbol,
                     stats     |-> evals[symbol].stats,
                     signature |-> GetSignature(evals[symbol].stats) ] :
                   symbol \in {x \in DOMAIN evals : evals[x].can} }
  IN /\ windows # EmptyMap
     /\ BagCardinality(pending) + Cardinality(started) <= MaxPending
     /\ pending' = pending (+) SetToBag(started)
     /\ last' = [op |-> "checkAllWindows", evals |-> evals, queue |-> pending]
     /\ UNCHANGED <<variant, alertEngine, filterVars, now, aggregatorVars, perEventVars, cooldownVars,
                    ingested, alerted>>

\* History: the events of the window of `symbol` that no sweep has read.
\* When the handler that ran just before added an event to the window, no
\* sweep has run since, so that event is one of them (others are not
\* tracked).
NeverEvaluated(symbol) ==
  IF /\ last.op = "addLiquidation"
     /\ last.symbol = symbol
     /\ symbol \in DOMAIN windows
     /\ \E i \in 1..Len(windows[symbol].liquidations) :
          windows[symbol].liquidations[i] = last.liq
  THEN <<last.liq>>
  ELSE <<>>

\* AlertEngine.sendAlert after its await: notifier.sendAlert has resolved
\* (TelegramNotifier catches the transport error of every chat, so it
\* resolves whether or not the message was delivered).
SendAlertResume(p) ==
  /\ BagIn(p, pending)
  /\ cooldowns' = RecordAlertCooldowns(p.symbol, now)
  /\ recentAlerts' = RecordAlertRecent(p.signature, now)
  /\ windows' = Reset(windows, p.symbol)
  /\ prices' = ResetPrices(variant, prices, p.symbol)
  /\ last' = [ op |-> "sendAlert", symbol |-> p.symbol,
               signature |-> p.signature,
               neverEvaluated |-> NeverEvaluated(p.symbol) ]
  /\ pending' = pending (-) SetToBag({p})
  /\ UNCHANGED <<variant, alertEngine, filterVars, now, perEventVars, cooldownMs, dedupWindowMs,
                 ingested, alerted>>

Next ==
  \/ Tick
  \/ \E order \in RawOrders : HandleMessage(order)
  \/ CheckAllWindows
  \/ \E p \in BagToSet(pending) : SendAlertResume(p)

Spec == Init /\ [][Next]_vars

(***************************************************************************)
(* SpecFeed: the sweep family on a feed that also carries malformed        *)
(* orders.                                                                 *)
(***************************************************************************)
FeedNext ==
  \/ Next
  \/ \E order \in MalformedOrders : HandleMessage(order)

SpecFeed == Init /\ [][FeedNext]_vars

(***************************************************************************)
(* SpecFilter: the sweep family while the token filter changes.  The       *)
(* filter refetches its list every UPDATE_INTERVAL_HOURS (2 h), and        *)
(* part_003 reopens its socket on a timer of its own, one minute longer.   *)
(***************************************************************************)
MIN_MCAP_USD == 10000000
MAX_MCAP_USD == 150000000

\* what httpsGet of the market data may give: the coins with their market
\* caps (both symbols in the range, or AUSDT above it), or a failure (network
\* error, HTTP status, rate limit, a body that is not JSON or not an array)
MarketResponses ==
  { [ok |-> TRUE,  coins |-> [symbol \in Symbols |-> 50000000]],
    [ok |-> TRUE,  coins |-> [symbol \in Symbols |->
                                IF symbol = "AUSDT" THEN 500000000 ELSE 50000000]],
    [ok |-> FALSE, coins |-> EmptyMap] }

\* TokenFilter.fetchMarketCap: the map symbol -> market cap; every failure is
\* caught and logged inside, and the map collected so far ({}) is returned
FetchMarketCap(response) ==
  IF response.ok THEN response.coins ELSE EmptyMap

IsValidMarketCap(mcap) == mcap >= MIN_MCAP_USD /\ mcap <= MAX_MCAP_USD

\* the lists a refetch may give
NewValidTokens(marketCapData) ==
  {symbol \in DOMAIN marketCapData : IsValidMarketCap(marketCapData[symbol])}

TokenLists == {NewValidTokens(FetchMarketCap(r)) : r \in MarketResponses}

\* TokenFilter.updateValidTokens: the new set replaces the old one (the catch
\* block that would keep the old one is only reached when fetchMarketCap
\* throws, which it never does)
UpdateValidTokens(response) ==
  /\ validTokens' = NewValidTokens(FetchMarketCap(response))
  /\ last' = [ op |-> "updateValidTokens", failed |-> ~response.ok,
               before |-> validTokens ]
  /\ UNCHANGED <<variant, alertEngine, subscribedTokens, wsManager, now, aggregatorVars, perEventVars,
                 cooldownVars, pending, ingested, alerted>>

\* BinanceWebSocketManager.resubscribe (part_003): the socket is closed and
\* connect opens the streams of the tokens that are valid by then
Resubscribe ==
  /\ variant = "p3"
  /\ subscribedTokens' = validTokens
  /\ last' = [op |-> "resubscribe"]
  /\ UNCHANGED <<variant, alertEngine, validTokens, wsManager, now, aggregatorVars, perEventVars,
                 cooldownVars, pending, ingested, alerted>>

FilterNext ==
  \/ Next
  \/ \E response \in MarketResponses : UpdateValidTokens(response)
  \/ Resubscribe

SpecFilter == Init /\ [][FilterNext]_vars

(***************************************************************************)
(* SpecSocket: the sockets of part_003.  The resubscribe timer, the        *)
(* 'close' events, the waits of resubscribe and the timers of reconnect    *)
(* interleave as the event loop allows; the exchange publishes every       *)
(* forced order once, on every socket that is subscribed to its stream.    *)
(***************************************************************************)
SocketInit == Init /\ variant = "p3"

\* setupFilterUpdateListener: the timer calls resubscribe, which closes
\* this.ws (the 'close' event comes later) and starts its wait of 2 s.  The
\* timer has a period of two hours, so no wait of 2 s and no timer of 5 s
\* is still running when it fires.
SocketResubscribe ==
  /\ wsManager.sleeping = 0 /\ wsManager.timers = 0
  /\ wsManager.created + wsManager.sleeping + wsManager.timers < MaxSockets
  /\ wsManager' = [Close(wsManager) EXCEPT !.sleeping = @ + 1]
  /\ last' = [op |-> "resubscribe", closed |-> wsManager.ws]
  /\ UNCHANGED <<variant, alertEngine, validTokens, subscribedTokens, now, aggregatorVars,
                 perEventVars, cooldownVars, pending, ingested, alerted>>

\* a socket emits 'close' (after ws.close(), or because the connection
\* dropped): the handler calls reconnect
SocketClose(socket) ==
  /\ socket \in DOMAIN wsManager.open
  /\ wsManager.created + wsManager.sleeping + wsManager.timers < MaxSockets
  /\ wsManager' = OnClose(wsManager, socket)
  /\ last' = [op |-> "close", socket |-> socket]
  /\ UNCHANGED <<variant, alertEngine, validTokens, subscribedTokens, now, aggregatorVars,
                 perEventVars, cooldownVars, pending, ingested, alerted>>

\* resubscribe after its wait: connect
ResubscribeConnect ==
  /\ wsManager.sleeping > 0
  /\ wsManager' = Connect([wsManager EXCEPT !.sleeping = @ - 1], validTokens)
  /\ subscribedTokens' = validTokens
  /\ last' = [op |-> "connect", by |-> "resubscribe"]
  /\ UNCHANGED <<variant, alertEngine, validTokens, now, aggregatorVars, perEventVars,
                 cooldownVars, pending, ingested, alerted>>

\* the timer of reconnect fires: connect
ReconnectTimer ==
  /\ wsManager.timers > 0
  /\ wsManager' = Connect([wsManager EXCEPT !.timers = @ - 1], validTokens)
  /\ subscribedTokens' = validTokens
  /\ last' = [op |-> "connect", by |-> "reconnect"]
  /\ UNCHANGED <<variant, alertEngine, validTokens, now, aggregatorVars, perEventVars,
                 cooldownVars, pending, ingested, alerted>>

\* handleMessage called n times with the same order
RECURSIVE HandleMessageTimes(_, _, _, _)
HandleMessageTimes(w, order, t, n) ==
  IF n = 0 THEN w
  ELSE HandleMessageTimes(
         AddLiquidation("p3", w, order.s, Liquidation(order, t), t),
         order, t, n - 1)

\* the exchange publishes one forced order: the 'message' handler of every
\* open socket that has its stream calls handleMessage
ForceOrder(order) ==
  LET receivers == {socket \in Delivering(wsManager) :
                      order.s \in wsManager.open[socket]}
  IN /\ ingested < MaxEvents
     /\ windows' = HandleMessageTimes(windows, order, now, Cardinality(receivers))
     /\ ingested' = ingested + 1
     /\ last' = [ op |-> "forceOrder", symbol |-> order.s,
                  deliveries |-> Cardinality(receivers) ]
     /\ UNCHANGED <<variant, alertEngine, filterVars, now, prices, perEventVars,
                    cooldownVars, pending, alerted>>

SocketNext ==
  \/ Tick
  \/ SocketResubscribe
  \/ \E socket \in DOMAIN wsManager.open : SocketClose(socket)
  \/ ResubscribeConnect
  \/ ReconnectTimer
  \/ \E order \in RawOrders : ForceOrder(order)

SpecSocket == SocketInit /\ [][SocketNext]_vars

(***************************************************************************)
(* SpecScenario: the sweep family fed one fixed sequence of orders, six    *)
(* forced SELL orders of one symbol at falling prices, while the clock and *)
(* the sweeps run as they like.                                            *)
(***************************************************************************)
ScenarioOrders ==
  << [s |-> "AUSDT", S |-> "SELL", p |-> Num(100), q |-> Num(1000)],
     [s |-> "AUSDT", S |-> "SELL", p |-> Num(99),  q |-> Num(2000)],
     [s |-> "AUSDT", S |-> "SELL", p |-> Num(98),  q |-> Num(500)],
     [s |-> "AUSDT", S |-> "SELL", p |-> Num(97),  q |-> Num(3000)],
     [s |-> "AUSDT", S |-> "SELL", p |-> Num(96),  q |-> Num(1000)],
     [s |-> "AUSDT", S |-> "SELL", p |-> Num(95),  q |-> Num(3000)] >>

\* BinanceWebSocketManager.handleMessage for the next order of the sequence
ScenarioMessage ==
  /\ ingested < Len(ScenarioOrders)
  /\ Delivered(ScenarioOrders[ingested + 1])
  /\ Accepted(ScenarioOrders[ingested + 1])
  /\ Ingest(ScenarioOrders[ingested + 1])
  /\ ingested' = ingested + 1
  /\ UNCHANGED <<variant, alertEngine, filterVars, now, perEventVars, cooldownVars, pending,
                 alerted>>

ScenarioNext ==
  \/ Tick
  \/ ScenarioMessage
  \/ CheckAllWindows
  \/ \E p \in BagToSet(pending) : SendAlertResume(p)

SpecScenario == Init /\ [][ScenarioNext]_vars

(***************************************************************************)
(* Claims about the sweep family.                                          *)
(***************************************************************************)
\* The events of evaluation e were all observed less than one window before t
AllFresh(e, t) ==
  \A i \in 1..Len(e.events) : t - e.events[i].timestamp < windowMs

\* C1: every snapshot a sweep computes (getWindowStats in checkAllWindows) is
\* computed only from events observed less than windowMs before the read.
\* Fails: getWindowStats of part_003, part_004 and index.js 872..969 does not
\* evict, and a window nobody adds to keeps its expired events.
C1_SweepReadsOnlyFreshEvents ==
  last.op = "checkAllWindows" =>
    \A symbol \in DOMAIN last.evals : AllFresh(last.evals[symbol], now)

\* C2: once an evaluation of an instrument has passed the gates, no later
\* evaluation of the same instrument with the same dominant side and less
\* than 1.5 x the volume passes them before the first alert's record is
\* written: of two suspended sendAlert calls for one instrument and side, one
\* has at least 1.5 x the volume of the other.  Fails: recordAlert runs after
\* the await, and every sweep until then approves the same window again.
C2_NoSecondDispatchWhilePending ==
  \A p \in BagToSet(pending) :
    /\ CopiesIn(p, pending) = 1
    /\ \A q \in BagToSet(pending) :
         (q # p /\ q.symbol = p.symbol
          /\ q.stats.dominantSide = p.stats.dominantSide)
           => 2 * Max(p.stats.totalVolumeUSD, q.stats.totalVolumeUSD)
              >= 3 * (p.stats.totalVolumeUSD + q.stats.totalVolumeUSD
                      - Max(p.stats.totalVolumeUSD, q.stats.totalVolumeUSD))

RECURSIVE SumRaw(_, _)
SumRaw(liqs, S) ==
  IF liqs = <<>> THEN 0
  ELSE JsAdd(IF Head(liqs).S = S THEN Head(liqs).volumeUSD ELSE 0,
             SumRaw(Tail(liqs), S))

\* forced orders of direction S dominate the events of evaluation e (all of
\* them with a volume that is a number)
RawDominant(e, S) ==
  LET all == JsAdd(SumRaw(e.events, "BUY"), SumRaw(e.events, "SELL"))
  IN ~IsNaN(all) /\ 2 * SumRaw(e.events, S) > all

\* C7: shouldAlert is false for every snapshot in which forced Buy orders
\* dominate and the price change is negative, and for every snapshot in which
\* forced Sell orders dominate and the price change is positive.  Fails for
\* part_004 and index.js 261..300: handleMessage turns SELL into LONG, and
\* shouldAlert rejects LONG with a negative change, SHORT with a positive one.
C7_DirectionConsistency ==
  last.op = "checkAllWindows" =>
    \A symbol \in DOMAIN last.evals :
      LET e == last.evals[symbol]
      IN (~e.stats.none /\ e.stats.priceChange.known) =>
           /\ (RawDominant(e, "BUY")
               /\ FracLess(e.stats.priceChange.changePercent, 0)) => ~e.should
           /\ (RawDominant(e, "SELL")
               /\ FracGreater(e.stats.priceChange.changePercent, 0)) => ~e.should

\* the least |priceChange| the bot `v` asks for
MinPriceChangeOf(v) ==
  IF v = "ix2" THEN MIN_PRICE_CHANGE_PERCENT_IX2 ELSE MIN_PRICE_CHANGE_PERCENT

\* C8: in index.js, whenever shouldAlert returns true, the volume and the
\* dominance reach their minimum and a price change was measured that reaches
\* its minimum (and, in the second bot, stays under its maximum).  Fails:
\* both bots skip the price checks when getPriceChange returns null, which it
\* does for a window of one liquidation.
C8_ApprovedOnlyWithPriceCheck ==
  (last.op = "checkAllWindows" /\ HasPriceTracker(variant)) =>
    \A symbol \in DOMAIN last.evals :
      LET e == last.evals[symbol]
      IN e.should =>
           /\ e.stats.totalVolumeUSD >= MIN_LIQUIDATION_USD
           /\ ~FracLess(e.stats.dominance, MIN_DOMINANCE)
           /\ e.stats.priceChange.known
           /\ ~FracLess(FracAbs(e.stats.priceChange.changePercent),
                        MinPriceChangeOf(variant))
           /\ variant = "ix2" =>
                ~FracGreater(FracAbs(e.stats.priceChange.changePercent),
                             MAX_PRICE_CHANGE_PERCENT)

\* C10: reset(symbol) followed at once by addLiquidation(symbol, liq) leaves
\* a window whose list is exactly <<liq>>, with the start time, the start and
\* last price (part_004) and the price history (index.js) taken from liq.
C10_ResetThenAdd ==
  (last.op = "addLiquidation" /\ last.afterReset) =>
    /\ last.symbol \in DOMAIN windows
    /\ windows[last.symbol].liquidations = <<last.liq>>
    /\ windows[last.symbol].startTime = last.liq.timestamp
    /\ variant = "p4" =>
         /\ windows[last.symbol].startPrice = last.liq.price
         /\ windows[last.symbol].lastPrice = last.liq.price
    /\ HasPriceTracker(variant) =>
         /\ last.symbol \in DOMAIN prices
         /\ prices[last.symbol]
              = <<[price |-> last.liq.price, timestamp |-> last.liq.timestamp]>>

\* C10 witness: in index.js an alert was sent, the window and the price
\* history reset, and the next order of the symbol started a new window
C10_Witness ==
  /\ last.op = "addLiquidation"
  /\ last.afterReset
  /\ HasPriceTracker(variant)
  /\ last.symbol \in DOMAIN cooldowns
  /\ last.symbol \in DOMAIN windows
  /\ Len(windows[last.symbol].liquidations) = 1

\* a double that is a number greater than 0
IsPositive(a) == ~IsNaN(a) /\ a > 0

\* C11: an event whose price or quantity is NaN or not positive is dropped at
\* ingestion: no window ever holds such an event.  Fails for part_003 (and
\* part_004, index.js): handleMessage passes parseFloat's result on without a
\* check, and addLiquidation appends it.
C11_NoMalformedEventInWindow ==
  \A symbol \in DOMAIN windows :
    \A i \in 1..Len(windows[symbol].liquidations) :
      /\ IsPositive(windows[symbol].liquidations[i].price)
      /\ IsPositive(windows[symbol].liquidations[i].quantity)

\* C12: a window that holds a single event is never evaluated as a signal:
\* getWindowStats gives no record for it or shouldAlert is false.  Fails for
\* index.js (and part_003): nothing counts the events, getPriceChange is null
\* for one price and the price checks are skipped, so one liquidation of the
\* minimum volume is approved.
C12_SingleEventNeverSignals ==
  last.op = "checkAllWindows" =>
    \A symbol \in DOMAIN last.evals :
      Len(windows[symbol].liquidations) = 1 => ~last.evals[symbol].should

\* C14: in every snapshot that carries a price change, the price change is
\* (lastPrice - firstPrice) / firstPrice x 100 over the prices of the oldest
\* and the newest event the window holds at that instant.  Fails for part_004:
\* cleanup moves startTime to the oldest surviving event but leaves startPrice
\* at the price of the event that opened the window.  (index.js keeps the
\* prices in a PriceTracker with a window of its own.)
C14_PriceChangeOverRetainedEvents ==
  last.op = "checkAllWindows" =>
    \A symbol \in DOMAIN last.evals :
      LET e == last.evals[symbol]
          liqs == windows[symbol].liquidations
      IN (~e.stats.none /\ e.stats.priceChange.known) =>
           e.stats.priceChange.changePercent
             = PercentChange(liqs[1].price, liqs[Len(liqs)].price)

\* the double f is a number between lo and hi
FracWithin(f, lo, hi) == f[2] > 0 /\ lo * f[2] <= f[1] /\ f[1] <= hi * f[2]

\* C15: in every snapshot getWindowStats returns, the dominance is a number
\* in [50, 100]; when the two side volumes are equal it is exactly 50 and
\* the dominant side is SHORT (the else side of longVolumeUSD >
\* shortVolumeUSD).  Fails for part_003 (and part_004, index.js): one event
\* with a NaN volume makes the total and the dominance NaN.
C15_DominanceRange ==
  last.op = "checkAllWindows" =>
    \A symbol \in DOMAIN last.evals :
      LET stats == last.evals[symbol].stats
      IN ~stats.none =>
           /\ FracWithin(stats.dominance, 50, 100)
           /\ stats.longVolumeUSD = stats.shortVolumeUSD =>
                /\ stats.dominance[1] = 50 * stats.dominance[2]
                /\ stats.dominantSide = "SHORT"

\* C16: every event a window holds belongs to a symbol the token filter
\* held as valid when the event came.  Fails for part_003: handleMessage does
\* not ask the filter, and the socket stays subscribed to the streams of the
\* old list until resubscribe runs.
C16_OnlyEligibleEventsInWindow ==
  \A symbol \in DOMAIN windows :
    \A i \in 1..Len(windows[symbol].liquidations) :
      windows[symbol].liquidations[i].eligible

\* C17: an alert for a window dominated by forced Buy orders names the
\* shorts as liquidated, and an alert for a window dominated by forced Sell
\* orders names the longs.  Fails for part_004 (and index.js 306..320):
\* handleMessage labels a SELL order LONG, and interpretSignal and the
\* formatter report a LONG-dominated window as a liquidation of shorts.
C17_ClassificationFollowsOrders ==
  last.op = "checkAllWindows" =>
    \A symbol \in DOMAIN last.evals :
      LET e == last.evals[symbol]
      IN e.can =>
           /\ RawDominant(e, "BUY") => e.liquidatedSide = "SHORTS"
           /\ RawDominant(e, "SELL") => e.liquidatedSide = "LONGS"

\* C18: with the first five orders of the scenario in the window ($734k) a
\* sweep approves nothing; with all six in the window ($1.019M, 100% one
\* side, price change -5%) the sweep approves an alert and names the longs
\* as liquidated.  Fails for part_004 (and index.js 261..300): shouldAlert
\* rejects a LONG-labelled window whose price fell.
C18_ScenarioAlertsOnSixthEvent ==
  (last.op = "checkAllWindows" /\ "AUSDT" \in DOMAIN last.evals) =>
    LET e == last.evals["AUSDT"]
    IN /\ (ingested = 5 /\ Len(e.events) = 5) => ~e.should
       /\ Len(e.events) = 6 => (e.can /\ e.liquidatedSide = "LONGS")

(***************************************************************************)
(* SpecGate: the CooldownManager of every bot driven on its own, as a      *)
(* caller may drive it: recordAlert and canAlert in any order, with        *)
(* candidates from a small set, while the clock advances.  The durations   *)
(* come from the environment (COOLDOWN_MINUTES, DEDUP_WINDOW_SEC), so Init *)
(* draws them from a set that holds the defaults.                          *)
(***************************************************************************)
GateVariants == {"p0", "p1", "p2", "p3"}
GateCooldowns == {1, COOLDOWN}
GateDedupWindows == {DEDUP_WINDOW, 3}

\* A candidate snapshot: the fields the gates read, under the names the
\* bots use (totalVolume in part_001/part_002, totalVolumeUSD elsewhere)
Candidate(side, volume, dominance) ==
  [ symbol         |-> "AUSDT",
    dominantSide   |-> side,
    totalVolume    |-> volume,
    totalVolumeUSD |-> volume,
    dominance      |-> <<dominance, 1>> ]

GateCandidates ==
  { Candidate("LONG",  1000000, 70),
    Candidate("LONG",  1100000, 75),
    Candidate("LONG",  1100000, 85),
    Candidate("LONG",  1600000, 70),
    Candidate("SHORT", 1000000, 70) }

\* canAlert of the bot `v`
GateCanAlertOf(v, c, t) ==
  CASE v = "p0" -> CanAlertP0(c.symbol, c, t)
    [] v = "p1" -> CanAlertP1(c.symbol, c, t)
    [] v = "p2" -> CanAlertP2(c.symbol, c, t)
    [] v = "p3" -> CanAlert(c.symbol, c, GetSignature(c), t)

\* the cooldown check of canAlert alone (the per-event bots have no other)
GateCooldownOf(v, c, t) ==
  IF v = "p3" THEN CooldownGate(c.symbol, t) ELSE GateCanAlertOf(v, c, t)

\* recordAlert of the bot `v`: the new value of `cooldowns`
GateRecordOf(v, c, t) ==
  CASE v = "p0" -> RecordAlertP0(c.symbol, c, t)
    [] v = "p1" -> RecordAlertP1(c.symbol, c, t)
    [] v = "p2" -> RecordAlertP2(c.symbol, c, t)
    [] v = "p3" -> RecordAlertCooldowns(c.symbol, t)

\* history of recordAlert(c) at time t
Alerted(a, c, t) ==
  [ a EXCEPT
      !.bySymbol    = MapSet(a.bySymbol, c.symbol, [stats |-> c, timestamp |-> t]),
      !.bySignature = MapSet(a.bySignature, GetSignature(c), t) ]

GateInit ==
  /\ variant \in GateVariants
  /\ now = 0
  /\ cooldownMs \in GateCooldowns
  /\ dedupWindowMs \in GateDedupWindows
  /\ cooldowns = EmptyMap
  /\ recentAlerts = EmptyMap
  /\ windows = EmptyMap
  /\ prices = EmptyMap
  /\ trades = EmptyMap
  /\ trendTrades = EmptyMap
  /\ pending = EmptyBag
  /\ ingested = 0
  /\ validTokens = Symbols
  /\ subscribedTokens = Symbols
  /\ wsManager = Connected
  /\ alertEngine = NewAlertEngine(TRUE)
  /\ alerted = NoneAlerted
  /\ last = [op |-> "init"]

GateTick ==
  /\ now < MaxTime
  /\ now' = now + 1
  /\ last' = [op |-> "tick"]
  /\ UNCHANGED <<variant, alertEngine, filterVars, aggregatorVars, perEventVars, cooldownVars, pending,
                 ingested, alerted>>

GateRecordAlert(c) ==
  /\ cooldowns' = GateRecordOf(variant, c, now)
  /\ recentAlerts' = IF variant = "p3"
                     THEN RecordAlertRecent(GetSignature(c), now)
                     ELSE recentAlerts
  /\ alerted' = Alerted(alerted, c, now)
  /\ last' = [op |-> "recordAlert", candidate |-> c]
  /\ UNCHANGED <<variant, alertEngine, filterVars, now, aggregatorVars, perEventVars, cooldownMs,
                 dedupWindowMs, pending, ingested>>

GateCanAlert(c) ==
  /\ last' = [ op           |-> "canAlert",
               candidate    |-> c,
               result       |-> GateCanAlertOf(variant, c, now),
               cooldownGate |-> GateCooldownOf(variant, c, now),
               dedupGate    |-> DedupGate(GetSignature(c), now) ]
  /\ UNCHANGED <<variant, alertEngine, filterVars, now, aggregatorVars, perEventVars, cooldownVars,
                 pending, ingested, alerted>>

\* CooldownManager.cleanup called on its own: part_000 runs it from a timer
\* (the other bots only call it at the end of recordAlert)
GateCleanup ==
  /\ variant = "p0"
  /\ cooldowns' = CleanupP0(cooldowns, now)
  /\ last' = [op |-> "cleanup"]
  /\ UNCHANGED <<variant, alertEngine, filterVars, now, aggregatorVars, perEventVars,
                 cooldownMs, dedupWindowMs, recentAlerts, pending, ingested,
                 alerted>>

GateNext ==
  \/ GateTick
  \/ \E c \in GateCandidates : GateRecordAlert(c)
  \/ \E c \in GateCandidates : GateCanAlert(c)
  \/ GateCleanup

SpecGate == GateInit /\ [][GateNext]_vars

(***************************************************************************)
(* SpecGC: the CooldownManager of part_000 and of part_003 under alerts of *)
(* several instruments, with the cleanup of each (the timer of part_000,   *)
(* the last line of recordAlert in part_003).                              *)
(***************************************************************************)
GcCandidates ==
  { Candidate("LONG",  1000000, 70),
    Candidate("SHORT", 1000000, 70),
    Candidate("LONG",  1600000, 70),
    [Candidate("LONG", 1000000, 70) EXCEPT !.symbol = "BUSDT"] }

GcInit == GateInit /\ variant \in {"p0", "p3"}

GcNext ==
  \/ GateTick
  \/ \E c \in GcCandidates : GateRecordAlert(c)
  \/ \E c \in GcCandidates : GateCanAlert(c)
  \/ GateCleanup

SpecGC == GcInit /\ [][GcNext]_vars

(***************************************************************************)
(* The MEXC bot (src/unnamed/part_001): every trade message is evaluated   *)
(* at once over four windows; checkAndAlert awaits the market data, then   *)
(* the Telegram send, and records the alert after the send.                *)
(***************************************************************************)
MIN_VOLUME_USD == 800000
MIN_DOMINANCE_P1 == 65
MIN_MARKET_CAP == 20000000
WINDOW_SECONDS == <<30, 60, 120, 180>>

\* a duration of d ticks, in seconds
Seconds(d) == 60 * d

RECURSIVE GCD(_, _)
GCD(a, b) == IF b = 0 THEN a ELSE GCD(b, a % b)

\* the double n / d, as a fraction in lowest terms (0 / 0 is NaN, <<0, 0>>)
Fraction(n, d) ==
  LET g == GCD(Abs(n), d)
  IN IF g = 0 THEN <<0, 0>> ELSE <<n \div g, d \div g>>

FracAtLeast(f, k) == f[1] >= k * f[2]
FracGreaterThan(f, g) == f[1] * g[2] > g[1] * f[2]

\* push.deal messages: {symbol, data: {deals: [{p, v, T, t}]}}.  A deal
\* without a time of its own (t = 0) gets the clock, `deal.t || Date.now()`;
\* the last message carries the time of a deal made one tick before the bot
\* started.  Two messages are malformed: one deal has a price that is not a
\* number, one a price of 0.
MexcMessages ==
  { [symbol |-> "AUSDT",
     deals  |-> << [p |-> Num(100), v |-> Num(8000), T |-> 1, t |-> 0],
                   [p |-> Num(100), v |-> Num(1000), T |-> 1, t |-> 0] >>],
    [symbol |-> "AUSDT",
     deals  |-> << [p |-> Junk, v |-> Num(1000), T |-> 1, t |-> 0],
                   [p |-> Num(101), v |-> Num(1000), T |-> 1, t |-> 0] >>],
    [symbol |-> "AUSDT",
     deals  |-> << [p |-> Num(0), v |-> Num(1000), T |-> 1, t |-> 0],
                   [p |-> Num(101), v |-> Num(1000), T |-> 1, t |-> 0] >>],
    [symbol |-> "AUSDT",
     deals  |-> << [p |-> Num(100), v |-> Num(3000), T |-> 2, t |-> 0] >>],
    [symbol |-> "AUSDT",
     deals  |-> << [p |-> Num(100), v |-> Num(8000), T |-> 1, t |-> 0],
                   [p |-> Num(100), v |-> Num(3000), T |-> 2, t |-> 0] >>],
    [symbol |-> "BUSDT",
     deals  |-> << [p |-> Num(50), v |-> Num(20000), T |-> 2, t |-> 0] >>],
    [symbol |-> "BUSDT",
     deals  |-> << [p |-> Num(50), v |-> Num(100), T |-> 2, t |-> -1] >>] }

\* handleMessage 624..629: the trade built from a deal
MexcTrade(deal, t) ==
  [ timestamp |-> IF deal.t # 0 THEN deal.t ELSE t,
    price     |-> ParseFloat(deal.p),
    quantity  |-> ParseFloat(deal.v),
    side      |-> IF deal.T = 1 THEN "buy" ELSE "sell" ]

\* VolumeAggregator.cleanup: the list is filtered, the key stays
MexcCleanup(tr, symbol, t) ==
  IF symbol \notin DOMAIN tr THEN tr
  ELSE LET Fresh(x) == Seconds(t - x.timestamp) < WINDOW_SECONDS[Len(WINDOW_SECONDS)]
       IN MapSet(tr, symbol, SelectSeq(tr[symbol], Fresh))

\* VolumeAggregator.addTrade: the new value of `trades`
MexcAddTrade(tr, symbol, trade, t) ==
  LET created == IF symbol \in DOMAIN tr THEN tr ELSE MapSet(tr, symbol, <<>>)
      tradeData == [ timestamp |-> trade.timestamp,
                     side      |-> trade.side,
                     usdVolume |-> trade.price * trade.quantity,
                     price     |-> trade.price ]
  IN MexcCleanup(MapSet(created, symbol, Append(created[symbol], tradeData)),
                 symbol, t)

\* TrendAnalyzer.addTrade (with its cleanup of 7200 s): the new `trendTrades`
TrendAddTrade(tt, symbol, trade, t) ==
  LET created == IF symbol \in DOMAIN tt THEN tt ELSE MapSet(tt, symbol, <<>>)
      pushed == Append(created[symbol],
                       [ timestamp |-> trade.timestamp,
                         side      |-> trade.side,
                         usdVolume |-> trade.price * trade.quantity ])
      Fresh(x) == Seconds(t - x.timestamp) < 7200
  IN MapSet(created, symbol, SelectSeq(pushed, Fresh))

RECURSIVE SumTrades(_, _)
SumTrades(ts, buy) ==
  IF ts = <<>> THEN 0
  ELSE (IF (Head(ts).side = "buy") = buy THEN Head(ts).usdVolume ELSE 0)
       + SumTrades(Tail(ts), buy)

\* VolumeAggregator.getWindowStats
MexcGetWindowStats(tr, symbol, windowSeconds, t) ==
  IF symbol \notin DOMAIN tr THEN NoStats
  ELSE LET Recent(x) == Seconds(t - x.timestamp) < windowSeconds
           recentTrades == SelectSeq(tr[symbol], Recent)
           buyVolume == SumTrades(recentTrades, TRUE)
           sellVolume == SumTrades(recentTrades, FALSE)
           totalVolume == buyVolume + sellVolume
           n == Len(recentTrades)
       IN IF n = 0 THEN NoStats
          ELSE [ none         |-> FALSE,
                 buyVolume    |-> buyVolume,
                 sellVolume   |-> sellVolume,
                 totalVolume  |-> totalVolume,
                 dominance    |-> IF totalVolume > 0
                                  THEN Fraction(100 * Max(buyVolume, sellVolume),
                                                totalVolume)
                                  ELSE <<0, 1>>,
                 dominantSide |-> IF buyVolume > sellVolume THEN "buy" ELSE "sell",
                 duration     |-> Seconds(t - recentTrades[1].timestamp),
                 priceChange  |-> IF n > 1
                                  THEN Fraction(100 * (recentTrades[n].price
                                                       - recentTrades[1].price),
                                                recentTrades[1].price)
                                  ELSE <<0, 1>>,
                 tradeCount   |-> n ]

\* VolumeAggregator.getAllWindowStats, indexed like WINDOW_SECONDS
MexcGetAllWindowStats(tr, symbol, t) ==
  [i \in 1..Len(WINDOW_SECONDS) |->
     MexcGetWindowStats(tr, symbol, WINDOW_SECONDS[i], t)]

\* checkAndAlert 431..445: index of the best window, 0 for none
MexcQualifies(stats) ==
  /\ ~stats.none
  /\ stats.totalVolume >= MIN_VOLUME_USD
  /\ FracAtLeast(stats.dominance, MIN_DOMINANCE_P1)

\* Faulty variant (sensitivity of C37): a later window wins a tie
RECURSIVE MexcBestFrom_LastOnTies(_, _, _)
MexcBestFrom_LastOnTies(allStats, i, best) ==
  IF i > Len(allStats) THEN best
  ELSE IF MexcQualifies(allStats[i])
          /\ (best = 0 \/ ~FracGreaterThan(allStats[best].dominance,
                                           allStats[i].dominance))
       THEN MexcBestFrom_LastOnTies(allStats, i + 1, i)
       ELSE MexcBestFrom_LastOnTies(allStats, i + 1, best)

RECURSIVE MexcBestFrom(_, _, _)
MexcBestFrom(allStats, i, best) ==
  IF i > Len(allStats) THEN best
  ELSE IF MexcQualifies(allStats[i])
          /\ (best = 0 \/ FracGreaterThan(allStats[i].dominance,
                                          allStats[best].dominance))
       THEN MexcBestFrom(allStats, i + 1, i)
       ELSE MexcBestFrom(allStats, i + 1, best)

MexcBestWindow(allStats) == MexcBestFrom(allStats, 1, 0)

\* handleMessage 623..637: the deals of one message, in order; a deal whose
\* price or quantity is NaN is skipped
IsValidTrade(trade) == trade.price # NaN /\ trade.quantity # NaN

RECURSIVE MexcAddDeals(_, _, _, _)
MexcAddDeals(tr, symbol, deals, t) ==
  IF deals = <<>> THEN tr
  ELSE LET trade == MexcTrade(Head(deals), t)
       IN MexcAddDeals(IF IsValidTrade(trade)
                       THEN MexcAddTrade(tr, symbol, trade, t) ELSE tr,
                       symbol, Tail(deals), t)

RECURSIVE TrendAddDeals(_, _, _, _)
TrendAddDeals(tt, symbol, deals, t) ==
  IF deals = <<>> THEN tt
  ELSE LET trade == MexcTrade(Head(deals), t)
       IN TrendAddDeals(IF IsValidTrade(trade)
                        THEN TrendAddTrade(tt, symbol, trade, t) ELSE tt,
                        symbol, Tail(deals), t)

\* MarketDataFetcher.getMarketData: what marketCap can be (estimateMarketCap,
\* or the default of the catch branch).  The cache only decides which of
\* them is returned.
MarketCaps == {30000000, 50000000, 200000000, 500000000}

MexcInit ==
  /\ variant = "p1"
  /\ now = 0
  /\ cooldownMs = COOLDOWN
  /\ dedupWindowMs = DEDUP_WINDOW
  /\ cooldowns = EmptyMap
  /\ recentAlerts = EmptyMap
  /\ windows = EmptyMap
  /\ prices = EmptyMap
  /\ trades = EmptyMap
  /\ trendTrades = EmptyMap
  /\ pending = EmptyBag
  /\ ingested = 0
  /\ validTokens = Symbols
  /\ subscribedTokens = Symbols
  /\ wsManager = Connected
  /\ alertEngine = NewAlertEngine(TRUE)
  /\ alerted = NoneAlerted
  /\ last = [op |-> "init"]

MexcTick ==
  /\ now < MaxTime
  /\ now' = now + 1
  /\ last' = [op |-> "tick"]
  /\ UNCHANGED <<variant, alertEngine, filterVars, aggregatorVars, perEventVars, cooldownVars, pending,
                 ingested, alerted>>

\* MexcWebSocket.handleMessage for a push.deal message, with the part of
\* checkAndAlert that runs before its first await
MexcHandleMessage(message) ==
  LET symbol == message.symbol
      added == MexcAddDeals(trades, symbol, message.deals, now)
      allStats == MexcGetAllWindowStats(added, symbol, now)
      best == MexcBestWindow(allStats)
      can == IF best = 0 THEN FALSE
             ELSE CanAlertP1(symbol, allStats[best], now)
  IN /\ ingested < MaxEvents
     /\ BagCardinality(pending) + (IF can THEN 1 ELSE 0) <= MaxPending
     /\ trades' = added
     /\ trendTrades' = TrendAddDeals(trendTrades, symbol, message.deals, now)
     /\ pending' = IF can
                   THEN pending (+) SetToBag({[ symbol     |-> symbol,
                                                bestStats  |-> allStats[best],
                                                bestWindow |-> WINDOW_SECONDS[best],
                                                awaiting   |-> "getMarketData" ]})
                   ELSE pending
     /\ ingested' = ingested + 1
     /\ last' = [op |-> "handleMessage", symbol |-> symbol, best |-> best,
                 can |-> can, allStats |-> allStats]
     /\ UNCHANGED <<variant, alertEngine, filterVars, now, aggregatorVars, cooldownVars, alerted>>

\* checkAndAlert 456..471: getMarketData has resolved; the market-cap filter,
\* then the call of telegram.sendMessage
MexcMarketDataResume(p, marketCap) ==
  /\ BagIn(p, pending)
  /\ p.awaiting = "getMarketData"
  /\ pending' = IF marketCap < MIN_MARKET_CAP
                THEN pending (-) SetToBag({p})
                ELSE (pending (-) SetToBag({p}))
                     (+) SetToBag({[p EXCEPT !.awaiting = "sendMessage"]})
  /\ last' = [op |-> "getMarketData", symbol |-> p.symbol]
  /\ UNCHANGED <<variant, alertEngine, filterVars, now, aggregatorVars, perEventVars, cooldownVars,
                 ingested, alerted>>

\* checkAndAlert 471..477: telegram.sendMessage has resolved (ok) or was
\* rejected (~ok, the catch branch)
MexcSendMessageResume(p, ok) ==
  /\ BagIn(p, pending)
  /\ p.awaiting = "sendMessage"
  /\ cooldowns' = IF ok THEN RecordAlertP1(p.symbol, p.bestStats, now)
                  ELSE cooldowns
  /\ pending' = pending (-) SetToBag({p})
  /\ last' = [op |-> "sendMessage", symbol |-> p.symbol, ok |-> ok,
              stats |-> p.bestStats]
  /\ UNCHANGED <<variant, alertEngine, filterVars, now, aggregatorVars, perEventVars, cooldownMs,
                 dedupWindowMs, recentAlerts, ingested, alerted>>

MexcNext ==
  \/ MexcTick
  \/ \E message \in MexcMessages : MexcHandleMessage(message)
  \/ \E p \in BagToSet(pending), marketCap \in MarketCaps :
       MexcMarketDataResume(p, marketCap)
  \/ \E p \in BagToSet(pending), ok \in BOOLEAN : MexcSendMessageResume(p, ok)

SpecMexc == MexcInit /\ [][MexcNext]_vars

(***************************************************************************)
(* The Bybit trade bot (src/unnamed/part_000): every trade of a            *)
(* publicTrade message is added to the window of its symbol and the window *)
(* is evaluated at once; an approved alert is queued for Telegram and      *)
(* recorded in the same step.                                              *)
(***************************************************************************)
MIN_VOLUME_USD_P0 == 500000
MIN_DOMINANCE_PCT == 65
\* CONFIG.MIN_PRICE_CHANGE_PCT (0.5) as a fraction
MIN_PRICE_CHANGE_PCT == <<1, 2>>
WINDOW_DURATION_SEC == 240
\* the literals of SignalDetector.shouldAlert (280, 285)
MIN_TRADE_COUNT == 5
MIN_WINDOW_SECONDS == 10

BybitTrade(side, price, size) == [side |-> side, price |-> price, size |-> size]

\* publicTrade messages: {topic: 'publicTrade.' + symbol, data: [trade]}.  The
\* third one carries two malformed trades.
BybitMessages ==
  { [symbol |-> "AUSDT",
     data   |-> << BybitTrade("Buy", Num(100), Num(1000)),
                   BybitTrade("Buy", Num(100), Num(1000)),
                   BybitTrade("Buy", Num(100), Num(1000)),
                   BybitTrade("Buy", Num(100), Num(1000)) >>],
    [symbol |-> "AUSDT",
     data   |-> << BybitTrade("Buy", Num(101), Num(2000)),
                   BybitTrade("Buy", Num(101), Num(2000)),
                   BybitTrade("Buy", Num(101), Num(6000)),
                   BybitTrade("Buy", Num(101), Num(2000)) >>],
    [symbol |-> "AUSDT",
     data   |-> << BybitTrade("Buy", Junk, Num(1000)),
                   BybitTrade("Buy", Num(100), Num(0)),
                   BybitTrade("Sell", Num(100), Num(1000)) >>],
    [symbol |-> "BUSDT",
     data   |-> << BybitTrade("Sell", Num(50), Num(4000)) >>] }

\* TradeAggregator.cleanup
BybitCleanup(list, t) ==
  LET Fresh(x) == Seconds(t - x.timestamp) < WINDOW_DURATION_SEC
  IN SelectSeq(list, Fresh)

\* TradeAggregator.addTrade: the new value of this.trades
BybitAddTrade(list, trade, t) ==
  LET price == ParseFloat(trade.price)
      size  == ParseFloat(trade.size)
  IN IF ~IsPositive(price) \/ ~IsPositive(size) THEN list
     ELSE BybitCleanup(Append(list, [ timestamp |-> t,
                                      side      |-> trade.side,
                                      price     |-> price,
                                      size      |-> size,
                                      usdValue  |-> price * size ]), t)

RECURSIVE SumUsd(_, _)
SumUsd(list, buy) ==
  IF list = <<>> THEN 0
  ELSE (IF (Head(list).side = "Buy") = buy THEN Head(list).usdValue ELSE 0)
       + SumUsd(Tail(list), buy)

\* TradeAggregator.getAggregation: the new value of this.trades
AggregationCleanup(list, t) ==
  IF Len(list) = 0 THEN list ELSE BybitCleanup(list, t)

\* TradeAggregator.getAggregation: what it returns
GetAggregation(list, symbol, t) ==
  LET kept == AggregationCleanup(list, t)
      n == Len(kept)
      buyVolumeUSD == SumUsd(kept, TRUE)
      sellVolumeUSD == SumUsd(kept, FALSE)
      totalVolumeUSD == buyVolumeUSD + sellVolumeUSD
  IN IF n < 2 THEN NoStats
     ELSE IF totalVolumeUSD = 0 THEN NoStats
     ELSE IF kept[1].price = 0 THEN NoStats
     ELSE [ none                  |-> FALSE,
            symbol                |-> symbol,
            totalVolumeUSD        |-> totalVolumeUSD,
            buyVolumeUSD          |-> buyVolumeUSD,
            sellVolumeUSD         |-> sellVolumeUSD,
            dominancePercent      |-> Fraction(100 * Max(buyVolumeUSD,
                                                         sellVolumeUSD),
                                               totalVolumeUSD),
            dominantSide          |-> IF buyVolumeUSD > sellVolumeUSD
                                      THEN "buy" ELSE "sell",
            priceChangePercent    |-> Fraction(100 * (kept[n].price
                                                      - kept[1].price),
                                               kept[1].price),
            windowDurationSeconds |-> Seconds(kept[n].timestamp
                                              - kept[1].timestamp),
            tradeCount            |-> n,
            firstPrice            |-> kept[1].price,
            lastPrice             |-> kept[n].price ]

\* f < g on two fractions with positive denominators
FracLessThan(f, g) == f[1] * g[2] < g[1] * f[2]

\* SignalDetector.shouldAlert of part_000 (every value of an aggregation is
\* finite, getAggregation has seen to it)
ShouldAlertP0(aggregation) ==
  IF aggregation.none THEN FALSE
  ELSE IF aggregation.tradeCount < MIN_TRADE_COUNT THEN FALSE
  ELSE IF aggregation.windowDurationSeconds < MIN_WINDOW_SECONDS THEN FALSE
  ELSE IF aggregation.totalVolumeUSD < MIN_VOLUME_USD_P0 THEN FALSE
  ELSE IF FracLess(aggregation.dominancePercent, MIN_DOMINANCE_PCT) THEN FALSE
  ELSE IF FracLessThan(FracAbs(aggregation.priceChangePercent),
                       MIN_PRICE_CHANGE_PCT) THEN FALSE
  ELSE IF FracGreater(aggregation.priceChangePercent, 0)
          # (aggregation.dominantSide = "buy") THEN FALSE
  ELSE TRUE

\* The loop of WebSocketManager.handleTrade over the trades of one message.
\* st holds the trades of the symbol, the map lastAlerts and, as history,
\* what each iteration decided.
RECURSIVE HandleTrades(_, _, _, _)
HandleTrades(st, symbol, data, t) ==
  IF data = <<>> THEN st
  ELSE LET added == BybitAddTrade(st.trades, Head(data), t)
           aggregation == GetAggregation(added, symbol, t)
           should == ShouldAlertP0(aggregation)
           can == IF should
                  THEN CanAlertP0With(st.lastAlerts, symbol, aggregation, t)
                  ELSE FALSE
       IN HandleTrades(
            [ trades     |-> AggregationCleanup(added, t),
              lastAlerts |-> IF can
                             THEN RecordAlertP0With(st.lastAlerts, symbol,
                                                    aggregation, t)
                             ELSE st.lastAlerts,
              evals      |-> Append(st.evals, [ aggregation |-> aggregation,
                                                should      |-> should,
                                                can         |-> can ]) ],
            symbol, Tail(data), t)

\* the iterations that sent an alert
SentOf(evals) ==
  LET Sent(e) == e.can IN SelectSeq(evals, Sent)

\* the alerts of a sequence of iterations, as the messages of the queue; `n`
\* messages were pushed before, and `id` is the place of a message in the
\* order of the pushes
RECURSIVE QueuedOf(_, _, _)
QueuedOf(symbol, sent, n) ==
  IF sent = <<>> THEN EmptyBag
  ELSE SetToBag({[ symbol      |-> symbol,
                   aggregation |-> Head(sent).aggregation,
                   id          |-> n + 1 ]})
       (+) QueuedOf(symbol, Tail(sent), n + 1)

BybitInit ==
  /\ variant = "p0"
  /\ now = 0
  /\ cooldownMs \in GateCooldowns
  /\ dedupWindowMs = DEDUP_WINDOW
  /\ cooldowns = EmptyMap
  /\ recentAlerts = EmptyMap
  /\ windows = EmptyMap
  /\ prices = EmptyMap
  /\ trades = [symbol \in Symbols |-> <<>>]
  /\ trendTrades = EmptyMap
  /\ pending = EmptyBag
  /\ ingested = 0
  /\ validTokens = Symbols
  /\ subscribedTokens = Symbols
  /\ wsManager = Connected
  /\ alertEngine = NewAlertEngine(TRUE)
  /\ alerted = NoneAlerted
  /\ last = [op |-> "init"]

\* WebSocketManager.handleTrade for one publicTrade message (no symbol is on
\* the blacklist).  AlertEngine.sendAlert puts the message on alertQueue.
HandleTrade(message) ==
  LET symbol == message.symbol
      end == HandleTrades([ trades     |-> trades[symbol],
                            lastAlerts |-> cooldowns,
                            evals      |-> <<>> ],
                          symbol, message.data, now)
      sent == SentOf(end.evals)
  IN /\ ingested < MaxEvents
     /\ symbol \in DOMAIN trades
     /\ trades' = [trades EXCEPT ![symbol] = end.trades]
     /\ cooldowns' = end.lastAlerts
     /\ pending' = pending (+) QueuedOf(symbol, sent, alerted.queued)
     /\ alerted' = IF sent = <<>> THEN alerted
                   ELSE [alerted EXCEPT
                           !.bySymbol =
                             MapSet(@, symbol,
                                    [ stats     |-> sent[Len(sent)].aggregation,
                                      timestamp |-> now ]),
                           !.queued = @ + Len(sent)]
     /\ last' = [ op       |-> "handleTrade",
                  symbol   |-> symbol,
                  evals    |-> end.evals,
                  previous |-> IF symbol \in DOMAIN alerted.bySymbol
                               THEN <<alerted.bySymbol[symbol]>> ELSE <<>> ]
     /\ ingested' = ingested + 1
     /\ UNCHANGED <<variant, alertEngine, filterVars, now, aggregatorVars, trendTrades,
                    cooldownMs, dedupWindowMs, recentAlerts>>

\* Faulty variant (sensitivity of C22): a message whose send failed goes
\* back on the queue
AfterSendTelegram_Retry(queue, p, ok) ==
  IF ok THEN queue (-) SetToBag({p}) ELSE queue

\* alertQueue after one turn of the loop of processQueue: the message was
\* shifted off before sendTelegram, and the catch block does not put it back
AfterSendTelegram(queue, p, ok) ==
  queue (-) SetToBag({p})

\* the head of alertQueue (the queue is first-in first-out)
IsHead(p, queue) ==
  /\ BagIn(p, queue)
  /\ \A q \in BagToSet(queue) : p.id <= q.id

\* AlertEngine.processQueue, one turn of its loop: the head of alertQueue is
\* passed to sendTelegram, which resolves (ok) or rejects.
ProcessQueue(p, ok) ==
  /\ IsHead(p, pending)
  /\ pending' = AfterSendTelegram(pending, p, ok)
  /\ alerted' = [alerted EXCEPT !.transport =
                   MapSet(@, p.id,
                          [ calls |-> IF p.id \in DOMAIN @
                                      THEN @[p.id].calls + 1 ELSE 1,
                            ok    |-> ok ])]
  /\ last' = [ op |-> "sendTelegram", symbol |-> p.symbol, id |-> p.id,
               ok |-> ok, queue |-> pending ]
  /\ UNCHANGED <<variant, alertEngine, filterVars, now, aggregatorVars, perEventVars,
                 cooldownVars, ingested>>

\* CooldownManager.cleanup of part_000, run by a timer every minute
CleanupLastAlerts ==
  /\ cooldowns' = CleanupP0(cooldowns, now)
  /\ last' = [op |-> "cleanup"]
  /\ UNCHANGED <<variant, alertEngine, filterVars, now, aggregatorVars, perEventVars,
                 cooldownMs, dedupWindowMs, recentAlerts, pending, ingested,
                 alerted>>

BybitNext ==
  \/ Tick
  \/ \E message \in BybitMessages : HandleTrade(message)
  \/ \E p \in BagToSet(pending), ok \in BOOLEAN : ProcessQueue(p, ok)
  \/ CleanupLastAlerts

SpecBybit == BybitInit /\ [][BybitNext]_vars

(***************************************************************************)
(* SpecReconnect: the reconnect state machine of index.js (lines 1..745)   *)
(* and of part_000.  The 'open' and 'close' events of a socket and the     *)
(* timer of reconnect are steps of their own; a socket may close before it *)
(* opens (the connection failed) or after.                                 *)
(***************************************************************************)
ReconnectInit == Init /\ variant = "ix1"

ReconnectInitP0 == BybitInit /\ cooldownMs = COOLDOWN

\* one handler of the manager: it goes from wsManager to m
ReconnectStep(op, socket, m) ==
  /\ ~wsManager.exited
  /\ wsManager' = m
  /\ alerted' = [alerted EXCEPT !.closes = IF op = "open" THEN 0
                                           ELSE IF op = "close" THEN @ + 1
                                           ELSE @]
  /\ last' = [ op |-> op, socket |-> socket,
               scheduled |-> m.timers - wsManager.timers ]
  /\ UNCHANGED <<variant, alertEngine, validTokens, subscribedTokens, now,
                 aggregatorVars, perEventVars, cooldownVars, pending,
                 ingested>>

\* a socket emits 'open'
SocketOpens(socket) ==
  /\ socket \in wsManager.connecting
  /\ ReconnectStep("open", socket, OnOpen(variant, wsManager, socket))

\* a socket emits 'close': the connection failed or dropped
SocketCloses(socket) ==
  /\ socket \in wsManager.connecting \cup DOMAIN wsManager.open
  /\ ReconnectStep("close", socket,
                   IF variant = "p0" THEN OnCloseP0(wsManager, socket)
                   ELSE OnClose(wsManager, socket))

\* the timer of reconnect fires: connect
ReconnectConnects ==
  /\ wsManager.timers > 0
  /\ wsManager.created < MaxConnects
  /\ ReconnectStep("connect", wsManager.created + 1,
                   NewSocket([wsManager EXCEPT !.timers = @ - 1]))

ReconnectNext ==
  \/ \E socket \in wsManager.connecting : SocketOpens(socket)
  \/ \E socket \in wsManager.connecting \cup DOMAIN wsManager.open :
       SocketCloses(socket)
  \/ ReconnectConnects

SpecReconnect == (ReconnectInit \/ ReconnectInitP0) /\ [][ReconnectNext]_vars

(***************************************************************************)
(* The alert queue of part_000 with its processQueue calls (SpecQueue).    *)
(* sendAlert is called by handleTrade without await; the sends and the     *)
(* pacing timers complete in any order the event loop allows.              *)
(***************************************************************************)
QueueInit ==
  /\ variant = "p0"
  /\ now = 0
  /\ cooldownMs \in GateCooldowns
  /\ dedupWindowMs = DEDUP_WINDOW
  /\ cooldowns = EmptyMap
  /\ recentAlerts = EmptyMap
  /\ windows = EmptyMap
  /\ prices = EmptyMap
  /\ trades = [symbol \in Symbols |-> <<>>]
  /\ trendTrades = EmptyMap
  /\ pending = EmptyBag
  /\ ingested = 0
  /\ validTokens = Symbols
  /\ subscribedTokens = Symbols
  /\ wsManager = Connected
  /\ alertEngine \in {NewAlertEngine(enabled) : enabled \in BOOLEAN}
  /\ alerted = NoneAlerted
  /\ last = [op |-> "init"]

\* one handler of the alert engine: the engine goes from alertEngine to f
QueueStep(op, message, f) ==
  /\ alertEngine' = f
  /\ alerted' = [alerted EXCEPT
                   !.queued = IF op = "sendAlert" THEN @ + 1 ELSE @,
                   !.handed = @ \o PassedToTransport(alertEngine, f)]
  /\ last' = [ op |-> op, message |-> message, before |-> alertEngine ]
  /\ UNCHANGED <<variant, filterVars, now, aggregatorVars, perEventVars,
                 cooldownVars, pending, ingested>>

\* handleTrade calls alertEngine.sendAlert(alertMessage)
QueueSendAlert ==
  /\ alerted.queued < MaxAlerts
  /\ QueueStep("sendAlert", alerted.queued + 1,
               EngineSendAlert(alertEngine, alerted.queued + 1))

\* the request of sendTelegram succeeded
QueueSendResolves(call) ==
  /\ call \in alertEngine.calls
  /\ call.at = "sendTelegram"
  /\ QueueStep("resolved", call.message, SendTelegramResolved(alertEngine, call))

\* the request of sendTelegram failed or timed out
QueueSendRejects(call) ==
  /\ call \in alertEngine.calls
  /\ call.at = "sendTelegram"
  /\ QueueStep("rejected", call.message, NextTurn(alertEngine, call))

\* the timer of 2000 ms fired
QueuePaceElapsed(call) ==
  /\ call \in alertEngine.calls
  /\ call.at = "setTimeout"
  /\ QueueStep("paced", call.message, NextTurn(alertEngine, call))

QueueNext ==
  \/ QueueSendAlert
  \/ \E call \in alertEngine.calls : QueueSendResolves(call)
  \/ \E call \in alertEngine.calls : QueueSendRejects(call)
  \/ \E call \in alertEngine.calls : QueuePaceElapsed(call)

SpecQueue == QueueInit /\ [][QueueNext]_vars

\* every request of sendTelegram resolves or rejects (axios is called with a
\* timeout of 10 s) and every timer fires
QueueFairness ==
  /\ WF_vars(\E call \in alertEngine.calls :
               QueueSendResolves(call) \/ QueueSendRejects(call))
  /\ WF_vars(\E call \in alertEngine.calls : QueuePaceElapsed(call))

SpecQueueLive == QueueInit /\ [][QueueNext]_vars /\ QueueFairness

(***************************************************************************)
(* The Bybit liquidation listener of part_002 (SpecListener).  Here        *)
(* `validTokens` is MarketDataManager.eligibleSymbols, `subscribedTokens`  *)
(* the topics the server holds for the open socket, `windows` is           *)
(* LiquidationTracker.liquidations and `pending` the calls of              *)
(* AlertTrigger.checkAndAlert suspended at telegram.sendMessage.           *)
(***************************************************************************)
MIN_LIQUIDATION_VOLUME == 1000000
MIN_DOMINANCE_P2 == 65
LIQUIDATION_WINDOW == 5
MIN_OPEN_INTEREST == 10000000
MAX_OPEN_INTEREST == 50000000
MIN_VOLUME_24H == 1000000

\* String.prototype.startsWith and String.prototype.replace(prefix, '') on a
\* string that starts with the prefix
StartsWith(str, prefix) ==
  Len(str) >= Len(prefix) /\ SubSeq(str, 1, Len(prefix)) = prefix
WithoutPrefix(str, prefix) == SubSeq(str, Len(prefix) + 1, Len(str))

\* the topic subscribeToLiquidations builds for a symbol
SubscribedTopic(symbol) == "allLiquidation." \o symbol

\* the prefix handleMessage looks for
HandledPrefix == "liquidation."

\* answers of GET /v5/market/tickers: the tickers of the list, all USDT
\* perpetuals, with lastPrice, openInterest and turnover24h as numbers
Ticker(symbol, price, oi, turnover) ==
  [symbol |-> symbol, lastPrice |-> price, openInterest |-> oi,
   turnover24h |-> turnover]

TickerResponses ==
  { [ok |-> TRUE,  list |-> { Ticker("AUSDT", 2, 10000000, 5000000),
                              Ticker("BUSDT", 1, 30000000, 5000000) }],
    [ok |-> TRUE,  list |-> { Ticker("AUSDT", 2, 30000000, 5000000),
                              Ticker("BUSDT", 1, 30000000, 5000000) }],
    [ok |-> TRUE,  list |-> { Ticker("AUSDT", 2, 10000000, 5000000),
                              Ticker("BUSDT", 1, 30000000, 900000) }],
    [ok |-> FALSE, list |-> {}] }

\* fetchAllMarkets: the eligibility test of one ticker (MONITOR_ALL_SYMBOLS
\* is off)
IsEligibleTicker(ticker) ==
  LET oiValue == ticker.openInterest * ticker.lastPrice
  IN /\ oiValue >= MIN_OPEN_INTEREST
     /\ oiValue <= MAX_OPEN_INTEREST
     /\ ticker.turnover24h >= MIN_VOLUME_24H

\* the symbols of a response that pass the test
QualifiedIn(response) ==
  {ticker.symbol : ticker \in {x \in response.list : IsEligibleTicker(x)}}

\* fetchAllMarkets: eligibleSymbols after the loop over the tickers; a
\* failed request is caught before the loop
FetchAllMarkets(eligibleSymbols, response) ==
  IF response.ok THEN eligibleSymbols \cup QualifiedIn(response)
  ELSE eligibleSymbols

\* subscribeToLiquidations on the open socket: the topics the server holds
SubscribeToLiquidations(topics, eligibleSymbols) ==
  IF eligibleSymbols = {} THEN topics
  ELSE topics \cup {SubscribedTopic(symbol) : symbol \in eligibleSymbols}

\* messages the server publishes: a liquidation of $1.2M on a topic
ListenerTopics ==
  {SubscribedTopic(symbol) : symbol \in Symbols}
    \cup {HandledPrefix \o symbol : symbol \in Symbols}

ListenerMessages ==
  { [topic |-> topic, data |-> [side |-> side, price |-> 50, size |-> 24000]] :
      topic \in ListenerTopics, side \in {"Buy", "Sell"} }

\* the symbol a published message is about
SymbolOfTopic(topic) ==
  IF StartsWith(topic, HandledPrefix) THEN WithoutPrefix(topic, HandledPrefix)
  ELSE WithoutPrefix(topic, "allLiquidation.")

\* LiquidationTracker.addLiquidation with its cleanup
TrackerAddLiquidation(w, symbol, liquidation, t) ==
  LET list == IF symbol \in DOMAIN w THEN w[symbol] ELSE <<>>
      Fresh(liq) == t - liq.timestamp < LIQUIDATION_WINDOW
      filtered == SelectSeq(Append(list, liquidation), Fresh)
  IN IF filtered = <<>> THEN MapDelete(w, symbol)
     ELSE MapSet(w, symbol, filtered)

\* LiquidationTracker.getWindowStats (the fields checkAndAlert reads)
RECURSIVE SumValue(_, _)
SumValue(list, side) ==
  IF list = <<>> THEN 0
  ELSE (IF Head(list).side = side THEN Head(list).value ELSE 0)
       + SumValue(Tail(list), side)

TrackerGetWindowStats(w, symbol) ==
  IF symbol \notin DOMAIN w THEN NoStats
  ELSE LET longLiqValue == SumValue(w[symbol], "Sell")
           shortLiqValue == SumValue(w[symbol], "Buy")
           totalVolume == longLiqValue + shortLiqValue
       IN IF totalVolume = 0 THEN NoStats
          ELSE [ none |-> FALSE,
                 totalVolume |-> totalVolume,
                 dominantSide |-> IF longLiqValue > shortLiqValue
                                  THEN "long" ELSE "short",
                 dominance |-> <<100 * Max(longLiqValue, shortLiqValue),
                                 totalVolume>> ]

\* AlertTrigger.checkAndAlert up to its await: does it send?  (fetchAllMarkets
\* has stored market data for every symbol of the list)
CheckAndAlertSends(symbol, stats, t) ==
  /\ ~(stats.totalVolume < MIN_LIQUIDATION_VOLUME)
  /\ ~FracLess(stats.dominance, MIN_DOMINANCE_P2)
  /\ CanAlertP2(symbol, stats, t)

ListenerInit ==
  /\ variant = "p2"
  /\ now = 0
  /\ cooldownMs = COOLDOWN
  /\ dedupWindowMs = DEDUP_WINDOW
  /\ cooldowns = EmptyMap
  /\ recentAlerts = EmptyMap
  /\ windows = EmptyMap
  /\ prices = EmptyMap
  /\ trades = EmptyMap
  /\ trendTrades = EmptyMap
  /\ pending = EmptyBag
  /\ ingested = 0
  /\ validTokens = {}
  /\ subscribedTokens = {}
  /\ wsManager = Connected
  /\ alertEngine = NewAlertEngine(TRUE)
  /\ alerted = NoneAlerted
  /\ last = [op |-> "init"]

\* start() and every run of the refresh timer: resubscribe() awaits
\* fetchAllMarkets and calls subscribeToLiquidations (start() does the same
\* through the 'open' handler of the socket)
ListenerResubscribe(response) ==
  LET eligibleSymbols == FetchAllMarkets(validTokens, response)
  IN /\ validTokens' = eligibleSymbols
     /\ subscribedTokens' = SubscribeToLiquidations(subscribedTokens,
                                                    eligibleSymbols)
     /\ last' = [ op |-> "fetchAllMarkets", ok |-> response.ok,
                  qualified |-> QualifiedIn(response) ]
     /\ UNCHANGED <<variant, alertEngine, wsManager, now, aggregatorVars,
                    perEventVars, cooldownVars, pending, ingested, alerted>>

\* BybitWebSocketListener.handleMessage for a liquidation the server
\* publishes on a topic of the socket
ListenerHandleMessage(message) ==
  LET handled == StartsWith(message.topic, HandledPrefix)
      symbol == WithoutPrefix(message.topic, HandledPrefix)
      rawData == message.data
      liquidation == [ timestamp |-> now, side |-> rawData.side,
                       price |-> rawData.price, size |-> rawData.size,
                       value |-> rawData.price * rawData.size ]
      added == handled /\ symbol \in validTokens
      w == TrackerAddLiquidation(windows, symbol, liquidation, now)
      stats == TrackerGetWindowStats(w, symbol)
      sends == IF stats.none THEN FALSE
               ELSE CheckAndAlertSends(symbol, stats, now)
  IN /\ ingested < MaxEvents
     /\ message.topic \in subscribedTokens
     /\ ingested' = ingested + 1
     /\ windows' = IF added THEN w ELSE windows
     /\ pending' = IF added /\ sends
                   THEN pending (+) SetToBag({[symbol |-> symbol,
                                               stats |-> stats]})
                   ELSE pending
     /\ last' = [ op |-> "handleMessage", topic |-> message.topic,
                  symbol |-> SymbolOfTopic(message.topic),
                  eligible |-> SymbolOfTopic(message.topic) \in validTokens,
                  added |-> added ]
     /\ UNCHANGED <<variant, alertEngine, filterVars, now, prices,
                    perEventVars, cooldownVars, alerted>>

ListenerNext ==
  \/ Tick
  \/ \E response \in TickerResponses : ListenerResubscribe(response)
  \/ \E message \in ListenerMessages : ListenerHandleMessage(message)

SpecListener == ListenerInit /\ [][ListenerNext]_vars

(***************************************************************************)
(* Claims about the garbage collection of the gates (SpecGC).              *)
(***************************************************************************)
\* the keys of a history map that were alerted at most `span` ago
AlertedWithin(h, span) ==
  {k \in DOMAIN h : now - h[k] <= span}

SymbolsAlertedWithin(span) ==
  {k \in DOMAIN alerted.bySymbol : now - alerted.bySymbol[k].timestamp <= span}

\* C21: right after a sweep of CooldownManager.cleanup (the end of recordAlert
\* in part_003, the timer of part_000) every remaining cooldown record is at
\* most 2 x cooldownMs old and every remaining dedup record at most
\* 2 x dedupWindowMs old, and there are no more records than instruments
\* (signatures) alerted within that span.
C21_RecordsBoundedAfterSweep ==
  /\ (variant = "p3" /\ last.op = "recordAlert") =>
       /\ \A symbol \in DOMAIN cooldowns :
            now - cooldowns[symbol] <= 2 * cooldownMs
       /\ \A sig \in DOMAIN recentAlerts :
            now - recentAlerts[sig] <= 2 * dedupWindowMs
       /\ Cardinality(DOMAIN cooldowns)
            <= Cardinality(SymbolsAlertedWithin(2 * cooldownMs))
       /\ Cardinality(DOMAIN recentAlerts)
            <= Cardinality(AlertedWithin(alerted.bySignature, 2 * dedupWindowMs))
  /\ (variant = "p0" /\ last.op = "cleanup") =>
       /\ \A symbol \in DOMAIN cooldowns :
            now - cooldowns[symbol].timestamp <= 2 * cooldownMs
       /\ Cardinality(DOMAIN cooldowns)
            <= Cardinality(SymbolsAlertedWithin(2 * cooldownMs))

\* C21 witness: the sweep at the end of recordAlert deleted the cooldown
\* record of one instrument and the dedup record of one signature, and kept
\* the dedup records of two others
C21_Witness ==
  /\ variant = "p3"
  /\ last.op = "recordAlert"
  /\ Cardinality(DOMAIN recentAlerts) >= 2
  /\ \E sig \in DOMAIN alerted.bySignature : sig \notin DOMAIN recentAlerts
  /\ \E symbol \in DOMAIN alerted.bySymbol : symbol \notin DOMAIN cooldowns

\* the candidates canAlert is asked about
AllSignatures == {GetSignature(c) : c \in GcCandidates}

\* C30: garbage collection never changes a suppression decision.  For every
\* symbol, candidate and signature canAlert returns right after cleanup what
\* it returned right before: in part_003 between the two map.set of
\* recordAlert and its end, in part_000 across the cleanup of the timer.
C30_CleanupKeepsDecisions ==
  [][ /\ (variant = "p3" /\ last'.op = "recordAlert") =>
           \A c \in GcCandidates, sig \in AllSignatures :
             CanAlertOn(MapSet(cooldowns, last'.candidate.symbol, now),
                        MapSet(recentAlerts,
                               GetSignature(last'.candidate), now),
                        c.symbol, sig, now)
               = CanAlertOn(cooldowns', recentAlerts', c.symbol, sig, now)
      /\ (variant = "p0" /\ last'.op = "cleanup") =>
           \A c \in GcCandidates :
             CanAlertP0With(cooldowns, c.symbol, c, now)
               = CanAlertP0With(cooldowns', c.symbol, c, now) ]_vars

\* C30 witness (part_000): the timer's cleanup deleted the record of an
\* instrument that had been alerted
C30_Witness ==
  /\ variant = "p0"
  /\ last.op = "cleanup"
  /\ \E symbol \in DOMAIN alerted.bySymbol : symbol \notin DOMAIN cooldowns

\* C29: in the two-gate CooldownManager with dedupWindowMs <= cooldownMs the
\* dedup gate never changes the outcome: whenever the signature gate would
\* reject a candidate the cooldown gate of its symbol rejects it too, and
\* canAlert returns what the cooldown check alone returns.
C29_DedupGateRedundant ==
  (/\ variant = "p3"
   /\ dedupWindowMs <= cooldownMs
   /\ last.op = "canAlert") =>
     /\ ~last.dedupGate => ~last.cooldownGate
     /\ last.result = last.cooldownGate

\* C29 witness: a candidate whose signature was alerted less than
\* dedupWindowMs ago is rejected, and its symbol is inside the cooldown
C29_Witness ==
  /\ variant = "p3"
  /\ dedupWindowMs <= cooldownMs
  /\ last.op = "canAlert"
  /\ ~last.dedupGate
  /\ ~last.result
  /\ GetSignature(last.candidate) \in DOMAIN recentAlerts
  /\ now - recentAlerts[GetSignature(last.candidate)] < dedupWindowMs

(***************************************************************************)
(* Claims about the gates (SpecGate).  They are stated on the history      *)
(* `alerted`, not on the maps canAlert reads.                              *)
(***************************************************************************)
HasLastAlert(c) == c.symbol \in DOMAIN alerted.bySymbol
LastAlertOf(c) == alerted.bySymbol[c.symbol]

\* an alert was recorded for the candidate's symbol less than cooldownMs ago
InsideCooldown(c) ==
  HasLastAlert(c) /\ now - LastAlertOf(c).timestamp < cooldownMs

SameSideAsLast(c) == c.dominantSide = LastAlertOf(c).stats.dominantSide

\* totalVolume < 1.5 x the volume of the last alert
BelowEscalation(c) ==
  2 * c.totalVolumeUSD < 3 * LastAlertOf(c).stats.totalVolumeUSD

\* dominance less than 10 points above the dominance of the last alert
DominanceSimilar(c) ==
  DominanceIncreaseLess(c.dominance, LastAlertOf(c).stats.dominance, 10)

\* the candidate's signature was recorded less than dedupWindowMs ago
SignatureRecent(c) ==
  /\ GetSignature(c) \in DOMAIN alerted.bySignature
  /\ now - alerted.bySignature[GetSignature(c)] < dedupWindowMs

C4_EscalationPassesCooldown ==
  last.op = "canAlert" =>
    (InsideCooldown(last.candidate)
     /\ (~SameSideAsLast(last.candidate) \/ ~BelowEscalation(last.candidate))
       => last.cooldownGate)

\* C5: in the bots with a signature dedup (part_003, part_004, index.js),
\* canAlert returns false when the candidate's signature was recorded less
\* than dedupWindowMs ago, whatever the cooldown check decides, and returns
\* true only when neither the cooldown nor the dedup window is running.
C5_DedupGateRejects ==
  (variant = "p3" /\ last.op = "canAlert") =>
    /\ SignatureRecent(last.candidate) => ~last.result
    /\ last.result => ~InsideCooldown(last.candidate)
                      /\ ~SignatureRecent(last.candidate)

\* C5 witness: the cooldown has run out, the signature is still recent, and
\* canAlert says no
C5_Witness ==
  /\ variant = "p3"
  /\ last.op = "canAlert"
  /\ HasLastAlert(last.candidate)
  /\ ~InsideCooldown(last.candidate)
  /\ SignatureRecent(last.candidate)
  /\ last.cooldownGate
  /\ ~last.result

\* C19: the cooldown check of canAlert passes when no alert is recorded for
\* the instrument, and when one is recorded with now - lastAlertAt >=
\* cooldownMs (the boundary included), whatever the side and the volume of
\* the candidate.
C19_CooldownGatePassesWhenExpired ==
  last.op = "canAlert" =>
    ((~HasLastAlert(last.candidate)
      \/ now - LastAlertOf(last.candidate).timestamp >= cooldownMs)
       => last.cooldownGate)

\* C19 witness: exactly cooldownMs after an alert, a candidate of the same
\* side and less than 1.5 x the volume passes the cooldown check
C19_Witness ==
  /\ last.op = "canAlert"
  /\ HasLastAlert(last.candidate)
  /\ now - LastAlertOf(last.candidate).timestamp = cooldownMs
  /\ SameSideAsLast(last.candidate)
  /\ BelowEscalation(last.candidate)
  /\ last.cooldownGate

(***************************************************************************)
(* Claims about the MEXC bot (SpecMexc).                                   *)
(***************************************************************************)
\* C6: when the send of an approved alert fails, the cooldown record of the
\* instrument is written anyway.  Fails for part_001 (and part_002):
\* recordAlert follows the awaited sendMessage inside the try block, so a
\* rejected send skips it.
C6_FailedSendStillRecorded ==
  (last.op = "sendMessage" /\ ~last.ok) =>
    /\ last.symbol \in DOMAIN cooldowns
    /\ cooldowns[last.symbol].timestamp = now

\* C9: after every dispatched alert the window of the instrument is reset,
\* so that no event of the alerted snapshot is left to be counted again.
\* Fails for part_001 (and part_000): nothing removes the trades after an
\* alert.
C9_WindowResetAfterDispatch ==
  (last.op = "sendMessage" /\ last.ok) =>
    \/ last.symbol \notin DOMAIN trades
    \/ trades[last.symbol] = <<>>

\* the double f is NaN, +Infinity or -Infinity
NotFinite(f) == f[2] = 0

\* C13: no statistics record that getWindowStats returns carries a dominance
\* or a price change that is NaN or infinite: a window whose total volume or
\* first price is 0 gives no record, or a record without such a value.
\* Fails for part_001 (and part_004): the price change is divided by the
\* first price without a check, and a deal with a price of 0 passes isNaN.
C13_NoDegenerateStatistics ==
  last.op = "handleMessage" =>
    \A i \in DOMAIN last.allStats :
      ~last.allStats[i].none =>
        /\ ~NotFinite(last.allStats[i].dominance)
        /\ ~NotFinite(last.allStats[i].priceChange)

(***************************************************************************)
(* Claims about the Bybit trade bot (SpecBybit).                           *)
(***************************************************************************)
\* the alerts of the last handleTrade, after the alert recorded before it
AlertChain ==
  LET sent == SentOf(last.evals)
  IN last.previous
     \o [i \in 1..Len(sent) |-> [stats |-> sent[i].aggregation,
                                  timestamp |-> now]]

\* C20: after handleTrade has sent alerts, the record of the instrument is
\* the snapshot of the last of them (its time, dominant side and total
\* volume); and of two alerts in a row for one instrument, the second
\* inside the cooldown of the first and of the same side, the second has at
\* least 1.5 x the volume of the first.
C20_RecordIsLastAlert ==
  last.op = "handleTrade" =>
    /\ SentOf(last.evals) # <<>> =>
         /\ last.symbol \in DOMAIN cooldowns
         /\ cooldowns[last.symbol]
              = [ timestamp |-> now,
                  side      |-> AlertChain[Len(AlertChain)].stats.dominantSide,
                  volume    |-> AlertChain[Len(AlertChain)].stats.totalVolumeUSD ]
    /\ \A i \in 2..Len(AlertChain) :
         (/\ AlertChain[i].timestamp - AlertChain[i - 1].timestamp < cooldownMs
          /\ AlertChain[i].stats.dominantSide
               = AlertChain[i - 1].stats.dominantSide)
           => 2 * AlertChain[i].stats.totalVolumeUSD
              >= 3 * AlertChain[i - 1].stats.totalVolumeUSD

\* C20 witness: one message gave a first alert, an escalated second alert,
\* and then a window that was held back although it had 1.5 x the volume of
\* the first alert, because it had less than 1.5 x the volume of the second
C20_Witness ==
  /\ last.op = "handleTrade"
  /\ \E i, j, k \in 1..Len(last.evals) :
       /\ i < j /\ j < k
       /\ last.evals[i].can /\ last.evals[j].can
       /\ last.evals[k].should /\ ~last.evals[k].can
       /\ 2 * last.evals[k].aggregation.totalVolumeUSD
            >= 3 * last.evals[i].aggregation.totalVolumeUSD
       /\ 2 * last.evals[k].aggregation.totalVolumeUSD
            < 3 * last.evals[j].aggregation.totalVolumeUSD
       /\ cooldowns[last.symbol].volume
            = last.evals[j].aggregation.totalVolumeUSD

(***************************************************************************)
(* Claims about the alert queue of part_000 (SpecBybit).                   *)
(***************************************************************************)
\* C22: delivery is at most once.  Every message handed to sendAlert is
\* passed to sendTelegram at most once; after a send, failed or not, the
\* message is no longer on the queue, and the messages behind it are all
\* still there for the next turns of the loop.
C22_AtMostOnceDelivery ==
  /\ \A id \in DOMAIN alerted.transport :
       /\ id \in 1..alerted.queued
       /\ alerted.transport[id].calls <= 1
  /\ last.op = "sendTelegram" =>
       /\ \A q \in BagToSet(pending) : q.id # last.id
       /\ \A q \in BagToSet(last.queue) :
            q.id # last.id => CopiesIn(q, pending) = CopiesIn(q, last.queue)

\* C22 witness: a send failed, and the next message of the queue was passed
\* to sendTelegram after it
C22_Witness ==
  /\ last.op = "sendTelegram"
  /\ \E id \in DOMAIN alerted.transport :
       /\ id < last.id
       /\ ~alerted.transport[id].ok
       /\ alerted.transport[id].calls = 1

(***************************************************************************)
(* Claims about the reset after a dispatch (Spec).                         *)
(***************************************************************************)
\* C28: the reset that sendAlert performs after the awaited dispatch deletes
\* no event that came in while the dispatch was pending and that no
\* evaluation has read.
C28_ResetDeletesOnlyEvaluatedEvents ==
  last.op = "sendAlert" => last.neverEvaluated = <<>>

(***************************************************************************)
(* Claims about the token filter (SpecFilter).                             *)
(***************************************************************************)
\* C26: when fetching the market data fails, updateValidTokens keeps the
\* previous list: validTokens after the failed update is the set before it.
C26_FailedRefreshKeepsList ==
  (last.op = "updateValidTokens" /\ last.failed) => validTokens = last.before

(***************************************************************************)
(* Claims about the sockets of part_003 (SpecSocket).                      *)
(***************************************************************************)
\* C27: at most one socket is open and delivering at any time, and no forced
\* order is added to a window more than once.
C27_SingleConnection ==
  /\ Cardinality(Delivering(wsManager)) <= 1
  /\ last.op = "forceOrder" => last.deliveries <= 1

(***************************************************************************)
(* Claims about the periodic sweep of part_003, on any feed (SpecSweep).   *)
(***************************************************************************)
SweepInit == Init /\ variant = "p3"

SpecSweep == SweepInit /\ [][FeedNext]_vars

\* the dispatch sendAlert starts for an instrument in the current state
DispatchOf(symbol) ==
  LET stats == GetWindowStats(variant, windows, prices, symbol, now)
  IN [symbol |-> symbol, stats |-> stats, signature |-> GetSignature(stats)]

Qualifies(symbol) ==
  LET stats == GetWindowStats(variant, windows, prices, symbol, now)
  IN IF ShouldAlert(variant, stats)
     THEN CanAlert(symbol, stats, GetSignature(stats), now)
     ELSE FALSE

\* C25: a sweep evaluates every instrument that had a window when it began,
\* and starts a dispatch in the same tick for every one whose statistics
\* qualify and pass the gates, whatever happened to the instruments
\* before it in the loop.  (The sweep itself changes neither the windows nor
\* the gates, so they are read here as they were when it began.)
C25_SweepEvaluatesEveryInstrument ==
  last.op = "checkAllWindows" =>
    /\ DOMAIN last.evals = GetAllActiveSymbols(windows)
    /\ \A symbol \in GetAllActiveSymbols(windows) :
         Qualifies(symbol) =>
           CopiesIn(DispatchOf(symbol), pending)
             = CopiesIn(DispatchOf(symbol), last.queue) + 1

\* C25 witness: a sweep over two instruments started a dispatch for both
C25_Witness ==
  /\ last.op = "checkAllWindows"
  /\ \E a, b \in GetAllActiveSymbols(windows) :
       /\ a # b
       /\ Qualifies(a) /\ Qualifies(b)
       /\ BagIn(DispatchOf(a), pending) /\ BagIn(DispatchOf(b), pending)

(***************************************************************************)
(* SignalDetector.getSignature on its own (SpecSignature): two snapshots   *)
(* are drawn and their signatures computed.                                *)
(***************************************************************************)
SignatureVolumes == {NaN, 0, 99999, 1020000, 1040000, 1099999, 1100000}

SignatureSnapshots ==
  [ symbol : Symbols, dominantSide : {"LONG", "SHORT"},
    totalVolumeUSD : SignatureVolumes ]

SignatureInit ==
  /\ GateInit
  /\ variant = "p3"
  /\ cooldownMs = COOLDOWN
  /\ dedupWindowMs = DEDUP_WINDOW

GetSignatures(a, b) ==
  /\ last' = [ op |-> "getSignature", a |-> a, b |-> b,
               signatures |-> <<GetSignature(a), GetSignature(b)>> ]
  /\ UNCHANGED <<variant, alertEngine, filterVars, now, aggregatorVars, perEventVars,
                 cooldownVars, pending, ingested, alerted>>

SignatureNext == \E a, b \in SignatureSnapshots : GetSignatures(a, b)

SpecSignature == SignatureInit /\ [][SignatureNext]_vars

\* C24: the signature depends only on the instrument, the dominant side and
\* the bucket floor(totalVolumeUSD / 100000): two snapshots get the same
\* signature exactly when they agree on the three.
C24_SignatureIsInstrumentSideBucket ==
  last.op = "getSignature" =>
    ( last.signatures[1] = last.signatures[2]
      <=> /\ last.a.symbol = last.b.symbol
          /\ last.a.dominantSide = last.b.dominantSide
          /\ SignatureBucketOf(last.a.totalVolumeUSD)
               = SignatureBucketOf(last.b.totalVolumeUSD) )

\* C24 witness: $1.02M and $1.04M of one instrument and side, one signature
C24_Witness ==
  /\ last.op = "getSignature"
  /\ last.a.totalVolumeUSD = 1020000
  /\ last.b.totalVolumeUSD = 1040000
  /\ last.a.symbol = last.b.symbol
  /\ last.a.dominantSide = last.b.dominantSide
  /\ last.signatures[1] = last.signatures[2]
  /\ last.signatures[1] = "AUSDT:LONG:10"

(***************************************************************************)
(* Claims about the keys of the event store.                               *)
(***************************************************************************)
\* C23: after eviction the store holds no instrument with an empty event
\* list: the keys of the map are the instruments with at least one retained
\* event.
C23_NoEmptyEntry ==
  /\ \A symbol \in DOMAIN trades : trades[symbol] # <<>>
  /\ \A symbol \in DOMAIN windows : windows[symbol].liquidations # <<>>

(***************************************************************************)
(* Claims about the processQueue calls of part_000 (SpecQueue).            *)
(***************************************************************************)
\* the messages 1..n in the order of their pushes
InPushOrder(from, to) == [i \in 1..(to - from) |-> from + i]

\* C31: at most one call of processQueue is inside its loop at any time, and
\* the sending flag is set exactly while there is one; the messages are
\* passed to sendTelegram in the order in which sendAlert pushed them, and
\* the queue holds, in that order, the ones not passed on yet.
C31_SingleLoopInPushOrder ==
  /\ Cardinality(alertEngine.calls) <= 1
  /\ alertEngine.sending <=> alertEngine.calls # {}
  /\ alerted.handed = InPushOrder(0, Len(alerted.handed))
  /\ alertEngine.telegramEnabled =>
       alertEngine.alertQueue = InPushOrder(Len(alerted.handed), alerted.queued)

\* C31 witness: sendAlert was called while a send or a pacing wait was
\* pending, and the third message has been passed to sendTelegram with one
\* more still on the queue
C31_Witness ==
  /\ last.op = "paced"
  /\ Len(alerted.handed) >= 3
  /\ Len(alertEngine.alertQueue) >= 1

\* a message is on alertQueue / has been passed to sendTelegram
OnQueue(id) == \E i \in DOMAIN alertEngine.alertQueue : alertEngine.alertQueue[i] = id
Attempted(id) == \E i \in DOMAIN alerted.handed : alerted.handed[i] = id

\* C32: with sends that resolve or reject and timers that fire, every
\* message pushed by sendAlert is passed to sendTelegram in the end; the
\* queue is never non-empty with no processQueue call inside its loop, and
\* with the queue drained and the loop over the sending flag is false.
C32_EveryMessageAttempted ==
  /\ [](alertEngine.alertQueue # <<>> => alertEngine.calls # {})
  /\ [](alertEngine.alertQueue = <<>> /\ alertEngine.calls = {}
          => ~alertEngine.sending)
  /\ \A id \in 1..MaxAlerts : OnQueue(id) ~> Attempted(id)

\* C32 witness: the loop has ended with the flag cleared after it passed on
\* a message that had waited on the queue
C32_Witness ==
  /\ alertEngine.telegramEnabled
  /\ last.op \in {"paced", "rejected"}
  /\ last.before.alertQueue = <<>>
  /\ ~alertEngine.sending
  /\ Len(alerted.handed) >= 2


(***************************************************************************)
(* Claims about the isolation of the instruments (Spec).                   *)
(***************************************************************************)
\* the window of an instrument, if it has one
WindowOf(w, symbol) == IF symbol \in DOMAIN w THEN <<w[symbol]>> ELSE <<>>

\* C33: the instruments are isolated from each other.  addLiquidation (with
\* the cleanup it ends with) and reset leave the window of every other
\* instrument as it was, and recordAlert (with the cleanup it ends with)
\* leaves the answer of canAlert as it was for every other instrument and
\* every signature other than the recorded one.
C33_PerInstrumentIsolation ==
  [][ /\ last'.op \in {"addLiquidation", "sendAlert"} =>
           \A other \in Symbols \ {last'.symbol} :
              WindowOf(windows', other) = WindowOf(windows, other)
      /\ last'.op = "sendAlert" =>
           \A other \in Symbols \ {last'.symbol} :
              \A signature \in (DOMAIN recentAlerts \cup {"none"})
                                 \ {last'.signature} :
                 CanAlertOn(cooldowns', recentAlerts', other, signature, now')
                   = CanAlertOn(cooldowns, recentAlerts, other, signature, now)
    ]_vars

\* C33 witness: recordAlert and reset have run for one instrument while
\* another one is inside its cooldown, and the other one is still rejected
C33_Witness ==
  /\ last.op = "sendAlert"
  /\ \E other \in Symbols \ {last.symbol} :
       /\ other \in DOMAIN cooldowns
       /\ ~CooldownGate(other, now)


(***************************************************************************)
(* Claims about the listener of part_002 (SpecListener).                   *)
(***************************************************************************)
\* C34: every liquidation the listener receives on a topic it subscribed
\* to, for an eligible symbol, is added to the LiquidationTracker.
C34_SubscribedLiquidationsTracked ==
  (/\ last.op = "handleMessage"
   /\ last.topic \in {SubscribedTopic(symbol) : symbol \in validTokens}
   /\ last.eligible)
    => last.added

\* C35: after a successful fetchAllMarkets, isEligible holds exactly for the
\* symbols that met the criteria in that fetch.
C35_EligibleExactlyQualified ==
  (last.op = "fetchAllMarkets" /\ last.ok) => validTokens = last.qualified


(***************************************************************************)
(* Claims about the reconnect state machine (SpecReconnect).               *)
(***************************************************************************)
\* C36: reconnectAttempts stays within 0..maxReconnectAttempts and is 0
\* after every 'open'.  A 'close' schedules one connect while it is one of
\* the first maxReconnectAttempts closes since the last 'open', and none
\* after that: then part_000 has exited, and index.js runs on with no
\* socket and no timer.  A connect is scheduled by nothing else.
C36_ReconnectStateMachine ==
  /\ wsManager.reconnectAttempts \in 0..maxReconnectAttempts
  /\ last.op = "open" => wsManager.reconnectAttempts = 0
  /\ last.op = "close" =>
       /\ last.scheduled
            = (IF alerted.closes <= maxReconnectAttempts THEN 1 ELSE 0)
       /\ wsManager.exited
            <=> (variant = "p0" /\ alerted.closes > maxReconnectAttempts)
       /\ alerted.closes > maxReconnectAttempts =>
            /\ wsManager.timers = 0
            /\ wsManager.connecting = {}
            /\ DOMAIN wsManager.open = {}
  /\ last.op \in {"open", "connect"} => last.scheduled <= 0

\* C36 witness: index.js after the close that follows the last attempt: no
\* connect is scheduled and the process runs on
C36_Witness ==
  /\ variant = "ix1"
  /\ last.op = "close"
  /\ alerted.closes = maxReconnectAttempts + 1
  /\ wsManager.reconnectAttempts = maxReconnectAttempts
  /\ last.scheduled = 0
  /\ ~wsManager.exited


(***************************************************************************)
(* Claims about the choice of the window in part_001 (SpecMexc).           *)
(***************************************************************************)
\* a snapshot meets the two thresholds of checkAndAlert
MeetsThresholds(stats) ==
  /\ ~stats.none
  /\ stats.totalVolume >= MIN_VOLUME_USD
  /\ stats.dominance[1] >= MIN_DOMINANCE_P1 * stats.dominance[2]

\* the windows of the last handleMessage that meet the thresholds
QualifyingWindows ==
  {i \in DOMAIN last.allStats : MeetsThresholds(last.allStats[i])}

\* C37: checkAndAlert goes on with a window only if the window meets the
\* volume and the dominance threshold; the window it takes has the greatest
\* dominance of the windows that meet them, and is the first of those that
\* have it; with no such window nothing is sent.  Every call waiting for
\* the market data or the send, and every cooldown record, is of a snapshot
\* that meets the thresholds.
C37_BestQualifyingWindow ==
  /\ last.op = "handleMessage" =>
       /\ last.best = 0 <=> QualifyingWindows = {}
       /\ last.best = 0 => ~last.can
       /\ last.best # 0 =>
            /\ last.best \in QualifyingWindows
            /\ \A j \in QualifyingWindows :
                 LET b == last.allStats[last.best].dominance
                     d == last.allStats[j].dominance
                 IN /\ b[1] * d[2] >= d[1] * b[2]
                    /\ b[1] * d[2] = d[1] * b[2] => last.best <= j
  /\ \A p \in BagToSet(pending) : MeetsThresholds(p.bestStats)
  /\ \A symbol \in DOMAIN cooldowns :
       /\ cooldowns[symbol].volume >= MIN_VOLUME_USD
       /\ cooldowns[symbol].dominance[1]
            >= MIN_DOMINANCE_P1 * cooldowns[symbol].dominance[2]

\* C37 witness: two windows of different dominance meet the thresholds, and
\* the longer one, which has the greater dominance, is taken; the shortest
\* window ties with the second
C37_Witness ==
  /\ last.op = "handleMessage"
  /\ 1 \in QualifyingWindows
  /\ last.allStats[1].dominance = last.allStats[2].dominance
  /\ last.best > 2
  /\ last.can


=============================================================================
